---------------------------- MODULE Spec2Model ----------------------------
(***************************************************************************)
(* Verification model of the eTims integration (mtl_tims):                 *)
(*   - EndpointsBuilder.make_remote_call   (apis/api_builder.py)           *)
(*   - the sales orchestrator chain        (apis/remote_response_status_   *)
(*     handlers.py: process_invoice_items, process_sales_transition,       *)
(*     process_sales_sign, update_invoice_info)                            *)
(*   - the periodic sweep                  (background_tasks/tasks.py)     *)
(*                                                                         *)
(* The specifications share the variables; the first ones are              *)
(*   CallSpec / FairCallSpec : one make_remote_call at a time              *)
(*   OrchSpec                : documents, job queue, orchestrator, sweep   *)
(*   ReconSpec               : update_invoice_info on remote snapshots     *)
(* and each later one is introduced where its actions are defined.         *)
(***************************************************************************)
EXTENDS Integers, Sequences, FiniteSets, TLC

(***************************************************************************)
(* Bounds of the model                                                     *)
(***************************************************************************)
\* cap on HTTP sends of one top-level call (never binding for the code: the
\* code stops at two; the cap only keeps a diverging variant finite)
MaxSend == 3

\* HTTP status codes the remote service answers with
StatusCodes == {200, 201, 401, 500}

\* HTTP methods set on the builder
Methods == {"GET", "POST", "PATCH", "PUT"}

\* success handlers bound by the callers of process_request
Handlers == {"none", "sales_item_submission_on_success",
             "handle_transition_success", "handle_invoice_sign_success",
             "update_invoice_info"}

\* places of the failure branch (api_builder.py 291-321) that can raise
\*   extract  : response_data[0] on an empty list (294), `in` on a non-str (298)
\*   reset    : reset_auth_password throws (utils.py 1384-1396)
\*   notifier : on_slade_error / handle_slade_errors raises the user error
\*   errcb    : the bound error callback raises
Faults == {"none", "extract", "reset", "notifier", "errcb"}

NoDoc == "-"

\* Sales Invoice documents and the rows of their items table
Docs == {"SINV-1"}

MaxItems == 2

Items == 1 .. MaxItems

\* invocations of process_invoice_items per document
MaxSubmits == 2

\* periodic sweeps observed
MaxSweeps == 1

\* ids the remote service hands out for a created line of row i
ResponseIds(i) == {10 * i + 1, 10 * i + 2}

\* remote id of the invoice itself (the invoice_slade_id argument)
RemoteInvoiceId(d) == IF d = "SINV-1" THEN 1 ELSE 2

\* largest max_allowed_revisions configured in Navari eTims Settings
MaxRevisions == 3

\* get_invoice_details runs per document
MaxFetches == 2

\* money and quantities are counted in hundredths (12.34 is 1234)
\* lines of a remote snapshot: quantity 2.00 at 51.50 tax inclusive
RemoteLineSeqs ==
    {<<>>, <<[quantity |-> 200, price_inclusive_tax |-> 5150]>>}

\* totals a remote snapshot reports: none, 100.00, and 100.00 off by 3%
Totals == {0, 10000, 10300}

\* base_grand_total of a return document
ReturnTotal == 10000

\* the access token found stored before any exchange of the run
OldToken == 1

\* password-grant exchanges observed
MaxExchanges == 3

\* the token the auth server issues in answer to exchange number n + 1
IssuedToken(n) == OldToken + n + 1

(***************************************************************************)
(* State                                                                   *)
(***************************************************************************)
VARIABLES
    \* ---- make_remote_call (one top-level call in flight at most) ----
    cpc,              \* position: "idle","send","success","failure","refresh","done"
    retrying,         \* the retrying argument of the running leg
    status_code,      \* response.status_code of the running leg (0: none yet)
    binding,          \* what the caller set on the builder for this call
    sent,             \* HTTP requests sent by this top-level call
    refreshes,        \* refresh_token calls of this top-level call
    resends,          \* recursive make_remote_call(retrying=True) calls
    success_calls,    \* invocations of _success_callback_handler
    notifier_calls,   \* invocations of on_slade_error
    error_calls,      \* invocations of _error_callback_handler
    first_401,        \* the first leg was answered 401
    log_status,       \* Integration Request status: "-","Queued","Completed","Failed"
    result,           \* value returned by the finished call: "-" (running),
                      \* "None", or "first_body" (response_data of the first leg)
    url,              \* self._url, a string of characters
    payload_id,       \* self._payload["id"], 0: the payload has no "id" key
    wire,             \* the requests of this call as sent: URL and body id
    \* ---- Sales Invoice fields (frappe.db) ----
    custom_successfully_submitted,   \* [Docs -> 0..1]
    custom_transition_successful,    \* [Docs -> 0..1]
    is_return,                       \* [Docs -> BOOLEAN]
    item_slade_id,    \* custom_slade_id of the item rows, 0: not set
    \* ---- background jobs and the running handler ----
    queue,            \* frappe.enqueue'd jobs (queue "long"), oldest first
    job,              \* the handler being executed
    submits,          \* process_invoice_items invocations so far, per document
    \* ---- history of the run, for stating the properties ----
    acks_transition,  \* 200/201 answers to transition requests, per document
    acks_sign,        \* 200/201 answers to sign requests, per document
    acks_fetch,       \* 200/201 answers to fetch-details requests, per document
    sign_enqueued,    \* process_sales_sign jobs enqueued, per document
    fetch_enqueued,   \* get_invoice_details jobs enqueued, per document
    posts_with_id,    \* POSTs sent for a row whose custom_slade_id was set
    sweeps,           \* sweeps run so far
    sweep_seen,       \* what the last sweep found persisted for a document
    sweep_resumed,    \* the orchestrator step the last sweep re-entered for it
    \* ---- reconciliation (update_invoice_info) ----
    revision_count,          \* [Docs -> Nat]
    status,                  \* doc.status
    max_allowed_revisions,   \* Navari eTims Settings, 0: not set
    custom_slade_id,         \* remote id persisted on the invoice, 0: not set
    scu_set,                 \* receipt number, signature, QR, SCU ids persisted
    credit_notes,            \* CreditNoteSaveReq requests enqueued, per document
    override_runs,           \* runs of generic_invoices_on_submit_override
    mismatches,              \* reconciliations of a document that found a mismatch
    fetches,                 \* get_invoice_details runs started directly
    \* ---- before_submit hooks (overrides/server) ----
    original_submitted,      \* custom_successfully_submitted of the invoice
                             \* named by return_against, [Docs -> 0..1]
    etims_sent,              \* requests send_invoice_to_etims made, per document
    other_submitted,         \* custom_submitted_successfully of the purchase
                             \* invoice and the stock reconciliation
    other_sent,              \* requests send_payload_to_etims made for them
    hook,                    \* the last run of a before_submit hook
    hooks_run,               \* hook runs so far
    \* ---- access token (Navari eTims Settings) ----
    access_token,            \* stored token, 0: absent
    token_expiry,            \* "absent", "past" or "future" (against now)
    exchanges,               \* password-grant exchanges answered with a token
    header_token,            \* token of the Authorization header last built
    bh,                      \* the last run of build_headers
    \* ---- submission attempts (tasks.py handle_invoice_submission) ----
    custom_submission_attempts,   \* [Invoices -> Nat]
    action_calls,            \* invocations of action_func, per invoice
    action_raises,           \* invocations of action_func that raised
    skips,                   \* times an invoice was passed over (line 128)
    max_tries,               \* get_max_submission_attempts()
    attempt_runs,            \* runs of handle_invoice_submission so far
    \* ---- sales_information_submission_on_error ----
    retry_jobs,              \* send_invoice_details jobs enqueued, per document
    item_registrations,      \* send_item_to_etims jobs enqueued
    customer_registrations,  \* send_to_etims jobs enqueued for a customer
    onerr,                   \* the last run of the error callback
    onerr_runs,              \* its runs so far
    \* ---- is_invoice_data_matching on its own ----
    m_payload,               \* the payload argument
    m_response,              \* the response_data argument
    m_result,                \* what the function returned for them, "-": not
                             \* yet called
    \* ---- Integration Request fields written by update_integration_request ----
    log_error,               \* error, a string of characters (<<>>: None)
    log_output,              \* output
    log_description,         \* request_description
    upd,                     \* arguments of the last update_integration_request
    updates,                 \* its calls so far
    \* ---- get_response_data on its own ----
    content_type,            \* the Content-Type header, in words
    resp_body,               \* the body, a string of characters
    resp_data,               \* what the function returned, "-": not yet called
    \* ---- payload builders and calculate_tax (utils.py) ----
    tax_doc,                 \* the document: its lines and its tax rows
    tax_payload,             \* the payload the last builder returned
    tax_run,                 \* the last run: which function, how it ended
    tax_runs,                \* runs so far
    \* ---- reset_auth_password (utils.py) ----
    auth_password,           \* stored auth_password: 0 the configured one,
                             \* n the password generated by the n-th reset
    reset_logs,              \* status of the Integration Request of every
                             \* password reset, oldest first
    \* ---- process_invoice_items run by several workers ----
    racers,                  \* per worker: where its process_invoice_items
                             \* stands and the invoice as it loaded it
    line_creates,            \* per row: POSTs the remote answered 200/201,
                             \* each of which made a remote line
    \* ---- the retry job send_invoice_details ----
    retry_runs               \* send_invoice_details jobs a worker has run,
                             \* per document

wirevars == <<url, payload_id, wire>>

callvars == <<cpc, retrying, status_code, binding, sent, refreshes, resends,
              success_calls, notifier_calls, error_calls, first_401,
              log_status, result, wirevars>>

docvars == <<custom_successfully_submitted, custom_transition_successful,
             is_return, item_slade_id>>

jobvars == <<queue, job, submits>>

histvars == <<acks_transition, acks_sign, acks_fetch, sign_enqueued,
              fetch_enqueued, posts_with_id>>

sweepvars == <<sweeps, sweep_seen, sweep_resumed>>

orchvars == <<docvars, jobvars, histvars, sweepvars>>

orchvars_but_job == <<docvars, queue, submits, histvars, sweepvars>>

reconvars == <<revision_count, status, max_allowed_revisions, custom_slade_id,
               scu_set, credit_notes, override_runs, mismatches, fetches>>

hookvars == <<original_submitted, etims_sent, other_submitted, other_sent,
              hook, hooks_run>>

authvars == <<access_token, token_expiry, exchanges, header_token, bh>>

attemptvars == <<custom_submission_attempts, action_calls, action_raises,
                 skips, max_tries,
                 attempt_runs>>

errvars == <<retry_jobs, item_registrations, customer_registrations, onerr,
             onerr_runs>>

matchvars == <<m_payload, m_response, m_result>>

logvars == <<log_error, log_output, log_description, upd, updates>>

respvars == <<content_type, resp_body, resp_data>>

taxvars == <<tax_doc, tax_payload, tax_run, tax_runs>>

pwvars == <<auth_password, reset_logs>>

racevars == <<racers, line_creates>>

latervars == <<pwvars, racevars, retry_runs>>

later_but_pw == <<racevars, retry_runs>>

later_but_race == <<pwvars, retry_runs>>

later_but_retry == <<pwvars, racevars>>

restvars == <<logvars, respvars, taxvars, latervars>>

rest_but_log == <<respvars, taxvars, latervars>>

rest_but_resp == <<logvars, taxvars, latervars>>

rest_but_tax == <<logvars, respvars, latervars>>

rest_but_pw == <<logvars, respvars, taxvars, later_but_pw>>

rest_but_race == <<logvars, respvars, taxvars, later_but_race>>

rest_but_retry == <<logvars, respvars, taxvars, later_but_retry>>

auxvars == <<errvars, matchvars, restvars>>

extvars == <<hookvars, authvars, attemptvars, auxvars>>

vars == <<callvars, orchvars, reconvars, extvars>>

Bindings == [handler : Handlers, errcb : BOOLEAN, method : Methods,
             route : {"-"}, doc : {NoDoc}, item : {0}, id : {0}]

NoBinding == [handler |-> "none", errcb |-> FALSE, method |-> "GET",
              route |-> "-", doc |-> NoDoc, item |-> 0, id |-> 0]

\* documents with a before_submit hook of their own: a Purchase Invoice
\* and a Stock Reconciliation
OtherDocs == {"PINV-1", "SR-1"}

\* Sales Invoices the sweep hands to handle_invoice_submission
Invoices == {"SINV-1", "SINV-2"}

\* utils.py 1318: settings.get("maximum_sales_information_submission_attempts", 3)
DefaultMaxTries == 3

\* runs of the before_submit hooks observed
MaxHooks == 2

\* runs of handle_invoice_submission observed
MaxAttemptRuns == 4

\* runs of sales_information_submission_on_error observed
MaxErrors == 3

\* lines of a payload or of a remote snapshot given to
\* is_invoice_data_matching
MaxLines == 3

\* payload items: 2 at 0.19, 1.5 at 0.19, 1 at 1.60, 2 at 2.76 (the first,
\* third and fourth add up to 7.50)
LocalItems ==
    <<[unit_price |-> 19, quantity |-> 200],
      [unit_price |-> 19, quantity |-> 150],
      [unit_price |-> 160, quantity |-> 100],
      [unit_price |-> 276, quantity |-> 200]>>

\* remote lines: the same four
RemoteItems ==
    <<[quantity |-> 200, price_inclusive_tax |-> 19],
      [quantity |-> 150, price_inclusive_tax |-> 19],
      [quantity |-> 100, price_inclusive_tax |-> 160],
      [quantity |-> 200, price_inclusive_tax |-> 276]>>

\* the lists of at most n elements of the list pool, in the order of pool
SeqsUpTo(pool, n) ==
    {[k \in DOMAIN at |-> pool[at[k]]] :
        at \in {seq \in UNION {[1 .. k -> DOMAIN pool] : k \in 0 .. n} :
                   \A i, j \in DOMAIN seq : i < j => seq[i] < seq[j]}}

\* payloads without an amount and with the amount 7.50
MatchPayloads ==
    [itemDetails : SeqsUpTo(LocalItems, MaxLines), amount : {0, 750}]

\* snapshots of an invoice totalling 7.00 or 7.50 and of a credit note
\* totalling 7.50
MatchResponses ==
    [scu_data : {TRUE}, is_credit_note : {FALSE},
     lines : SeqsUpTo(RemoteItems, MaxLines),
     total_gross_amount : {700, 750}, crn_total_amount : {0}]
    \cup
    [scu_data : {TRUE}, is_credit_note : {TRUE},
     lines : SeqsUpTo(RemoteItems, MaxLines),
     total_gross_amount : {0}, crn_total_amount : {750}]

\* a list with two neighbours exchanged; every order of the list is
\* reached by such exchanges
Reorderings(seq) ==
    {[k \in DOMAIN seq |-> IF k = n THEN seq[n + 1]
                           ELSE IF k = n + 1 THEN seq[n] ELSE seq[k]] :
        n \in 1 .. Len(seq) - 1}

\* which of the two duplicate-entity messages occur in the error text
\* (remote_response_status_handlers.py 306, 319)
ErrorTexts == SUBSET {"Product", "BusinessPartner"}

NoOnErr == [doc |-> NoDoc, texts |-> {}, lines |-> 0, stage |-> "-"]

\* how the service answers a submission: a body with status true, a body
\* with status false, a body with status false whose message says that the
\* document already exists there, or no answer at all (the transport
\* fails)
EtimsAnswers == {"true", "false", "exists", "transport"}

\* where a hook run ended:
\*   import   : the module of the hook could not be imported
\*   items    : a row's item has no custom_item_code_etims (throw)
\*   guard    : the document is not to be sent (hook returns)
\*   exempt   : generic_invoices_before_submit returned at line 29
\*   original : the original of a return is not submitted (throw)
\*   rejected : the service did not answer status true (throw)
\*   response : the answer could not be stored (exception)
\*   marked   : the document was marked submitted (hook returns)
RaisedStages == {"import", "items", "original", "rejected", "response",
                 "tax_code"}

NoHook == [doctype |-> "-", doc |-> NoDoc, missing_item |-> FALSE,
           missing_tax_code |-> FALSE, answer |-> "-", stage |-> "-", sent |-> FALSE]

NoBh == [pre_token |-> 0, pre_expiry |-> "-", outcome |-> "-",
         exchanged |-> 0, header |-> 0, expiry |-> "-"]

NoJob == [kind |-> "idle", doc |-> NoDoc, idx |-> 0,
          snapshot |-> [i \in Items |-> 0], failed |-> FALSE]

(***************************************************************************)
(* make_remote_call                                                        *)
(***************************************************************************)
\* api_builder.py 263: response.status_code in {200, 201}
IsSuccessStatus_Or401(code) == code \in {200, 201, 401}

IsSuccessStatus(code) == code \in {200, 201}

\* api_builder.py 323: response.status_code == 401 and not retrying
ShouldRefresh_NoRetryGuard(code, retry) == code = 401

ShouldRefresh(code, retry) == code = 401 /\ ~retry

CallIdle ==
    /\ cpc = "idle"

\* ---- strings: a sequence of characters, Slash is "/" and every other
\* number a character that is not "/" ----
Slash == 0

Text == 9

\* the URL process_request gives the builder for a route
RouteUrl == <<Text, Slash, Text, Slash>>

\* `t in s`
Contains(s, t) ==
    \E k \in 0..(Len(s) - Len(t)) : SubSeq(s, k + 1, k + Len(t)) = t

rstrip_Once(s) ==
    IF s # <<>> /\ s[Len(s)] = Slash THEN SubSeq(s, 1, Len(s) - 1) ELSE s

\* s.rstrip('/')
rstrip(s) ==
    LET keep == {k \in 0..Len(s) :
                   /\ k = 0 \/ s[k] # Slash
                   /\ \A j \in (k + 1)..Len(s) : s[j] = Slash}
    IN  SubSeq(s, 1, CHOOSE k \in keep : TRUE)

\* f"/{id}/"
IdPath(id) == <<Slash, id, Slash>>

\* 245-248 and 252-255: the URL a PATCH or PUT goes to; `patch_id and ...`
\* is false for a payload without an id
request_url(method, u, id) ==
    IF method \in {"PATCH", "PUT"} /\ id # 0 /\ ~Contains(u, IdPath(id))
    THEN rstrip(u) \o IdPath(id)
    ELSE u

\* 246 and 253: pop("id", None) takes the id out of the payload
request_id(method, id) == IF method \in {"PATCH", "PUT"} THEN 0 ELSE id

\* api_builder.py 186-232: entry of a top-level call (retrying=False): the
\* builder carries url, headers, method and success callback; the
\* Integration Request is created (status Queued)
BeginCallTo(b, u, id) ==
    /\ cpc' = "send"
    /\ url' = u
    /\ payload_id' = id
    /\ wire' = <<>>
    /\ retrying' = FALSE
    /\ status_code' = 0
    /\ binding' = b
    /\ sent' = 0
    /\ refreshes' = 0
    /\ resends' = 0
    /\ success_calls' = 0
    /\ notifier_calls' = 0
    /\ error_calls' = 0
    /\ first_401' = FALSE
    /\ log_status' = "Queued"
    /\ result' = "-"

\* a request set up by the callers of this repository: the URL of its route
\* and, for a PATCH, the remote id in the payload
BeginCall(b) == BeginCallTo(b, RouteUrl, b.id)

\* The running leg ends, by `return response_data` (330) or by the except
\* clause (332-341, `return None`). A retried leg returns into line 326 of
\* the first leg, which discards the value and returns its own
\* response_data; so the top-level call ends either way.
EndCall(raised) ==
    /\ cpc' = "done"
    /\ result' = IF raised /\ ~retrying THEN "None" ELSE "first_body"

Inc(f, d) == [f EXCEPT ![d] = @ + 1]

\* what the remote service and the wire saw of this request: 200/201
\* answers per orchestrator step, and POSTs of rows that had a remote id
RecordAnswer(code) ==
    LET h == binding.handler
        d == binding.doc
        ok == code \in {200, 201}
    IN  /\ acks_transition' =
             IF ok /\ h = "handle_transition_success"
             THEN Inc(acks_transition, d) ELSE acks_transition
        /\ acks_sign' =
             IF ok /\ h = "handle_invoice_sign_success"
             THEN Inc(acks_sign, d) ELSE acks_sign
        /\ acks_fetch' =
             IF ok /\ h = "update_invoice_info"
             THEN Inc(acks_fetch, d) ELSE acks_fetch

RecordPost ==
    posts_with_id' =
        IF /\ binding.handler = "sales_item_submission_on_success"
           /\ binding.method = "POST"
           /\ item_slade_id[binding.doc][binding.item] # 0
        THEN [posts_with_id EXCEPT ![binding.doc][binding.item] = @ + 1]
        ELSE posts_with_id

\* api_builder.py 234-261 and 332-341: the HTTP request of one leg. Either
\* requests raises (transport error: logged by frappe.log_error, None
\* returned) or a response with some status code arrives.
SendRequest ==
    /\ cpc = "send"
    /\ sent < MaxSend
    /\ sent' = sent + 1
    /\ url' = request_url(binding.method, url, payload_id)
    /\ payload_id' = request_id(binding.method, payload_id)
    /\ wire' = Append(wire, [url |-> url', id |-> payload_id'])
    /\ RecordPost
    /\ \/ /\ EndCall(TRUE)
          /\ UNCHANGED <<status_code, first_401, acks_transition, acks_sign,
                         acks_fetch>>
       \/ \E code \in StatusCodes :
            /\ status_code' = code
            /\ first_401' = (first_401 \/ (~retrying /\ code = 401))
            /\ cpc' = IF IsSuccessStatus(code) THEN "success" ELSE "failure"
            /\ RecordAnswer(code)
            /\ UNCHANGED result
    /\ UNCHANGED <<retrying, binding, refreshes, resends, success_calls,
                   notifier_calls, error_calls, log_status>>
    /\ UNCHANGED <<docvars, jobvars, sign_enqueued, fetch_enqueued, sweepvars,
                   reconvars, extvars>>

\* password resets observed
MaxResets == 1

\* utils.py 1340-1396: a password is generated and posted to
\* {auth_server_url}/password_change/ under an Integration Request of its
\* own. On a 200 the new password is stored, the request is Completed and
\* the function returns (1376-1378). On any other answer (1379-1390) and on
\* an exception of requests.post (1392-1396) the request is Failed, the
\* stored password stays and frappe.throw raises.
reset_auth_password(accepted) ==
    /\ reset_logs' =
         Append(reset_logs, IF accepted THEN "Completed" ELSE "Failed")
    /\ auth_password' =
         IF accepted THEN Len(reset_logs) + 1 ELSE auth_password

\* api_builder.py 290-326: a response that is not 200/201. decode_error: the
\* error text holds the 'could not decode json' message (298), which is
\* looked for once the text was extracted (291-296); a reset that raises
\* leaves the branch for the except clause (332)
FailureBranch ==
    /\ cpc = "failure"
    /\ \E fault \in Faults, decode_error \in BOOLEAN :
         /\ fault = "reset" => decode_error
         /\ fault = "extract" => ~decode_error
         /\ decode_error => Len(reset_logs) < MaxResets
         /\ IF decode_error
            THEN reset_auth_password(fault # "reset")
            ELSE UNCHANGED pwvars
         /\ fault = "errcb" => binding.errcb
         /\ log_status' = IF fault \in {"extract", "reset"}
                          THEN log_status ELSE "Failed"
         /\ notifier_calls' = IF fault \in {"extract", "reset"}
                              THEN notifier_calls ELSE notifier_calls + 1
         /\ error_calls' = IF binding.errcb /\ fault \in {"none", "errcb"}
                           THEN error_calls + 1 ELSE error_calls
         /\ IF fault = "none" /\ ShouldRefresh(status_code, retrying)
            THEN cpc' = "refresh" /\ UNCHANGED result
            ELSE EndCall(fault # "none")
    /\ UNCHANGED <<wirevars, retrying, status_code, binding, sent, refreshes, resends,
                   success_calls, first_401>>
    /\ UNCHANGED <<orchvars, reconvars, hookvars, authvars, attemptvars,
                   errvars, matchvars, rest_but_pw>>

(***************************************************************************)
(* The stored access token (utils.py 897-989)                              *)
(***************************************************************************)
\* utils.py 960-965: needs_update = skip_checks or not access_token or
\* strptime(str(token_expiry)) < now
needs_update(skip_checks, token, expiry) ==
    skip_checks \/ token = 0 \/ expiry = "past"

\* utils.py 961-963: str(None) is 'None', which strptime rejects with
\* ValueError; the expression is reached when skip_checks is false and a
\* token is stored
ExpiryParseFails(skip_checks, token, expiry) ==
    ~skip_checks /\ token # 0 /\ expiry = "absent"

\* utils.py 957-989, with authenticate_and_get_token (897-954), which
\* returns the token details or throws. `out` is how the call ends:
\* "returned" (settings_doc) or "raised". After the save (985)
\* user_details_fetch (987) sends a request of its own, which may raise.
update_navari_settings_with_token(skip_checks, out) ==
    IF ExpiryParseFails(skip_checks, access_token, token_expiry)
    THEN /\ out = "raised"
         /\ UNCHANGED <<access_token, token_expiry, exchanges>>
    ELSE IF needs_update(skip_checks, access_token, token_expiry)
    THEN /\ exchanges' = exchanges + 1
         /\ \/ /\ out = "raised"
               /\ UNCHANGED <<access_token, token_expiry>>
            \/ /\ out \in {"returned", "raised"}
               /\ access_token' = IssuedToken(exchanges)
               /\ token_expiry' = "future"
    ELSE /\ out = "returned"
         /\ UNCHANGED <<access_token, token_expiry, exchanges>>

\* api_builder.py 325-326 with refresh_token (169-184): refresh_token calls
\* update_navari_settings_with_token(self._settings.name), without
\* skip_checks, and puts the token of the settings it returns in the
\* Authorization header; an exception is caught at 332 (None returned);
\* otherwise the request is re-sent by the recursive call with
\* retrying=True
RefreshAndRetry ==
    /\ cpc = "refresh"
    /\ refreshes' = refreshes + 1
    /\ \E out \in {"returned", "raised"} :
         /\ update_navari_settings_with_token(FALSE, out)
         /\ IF out = "raised"
            THEN /\ EndCall(TRUE)
                 /\ UNCHANGED <<retrying, resends, header_token>>
            ELSE /\ retrying' = TRUE
                 /\ resends' = resends + 1
                 /\ cpc' = "send"
                 /\ header_token' = access_token'
                 /\ UNCHANGED result
    /\ UNCHANGED <<wirevars, status_code, binding, sent, success_calls, notifier_calls,
                   error_calls, first_401, log_status>>
    /\ UNCHANGED <<orchvars, reconvars, hookvars, bh, attemptvars, auxvars>>

(***************************************************************************)
(* Success handlers (remote_response_status_handlers.py)                   *)
(***************************************************************************)
SignJob(d) == [kind |-> "process_sales_sign", doc |-> d]

FetchJob(d) == [kind |-> "get_invoice_details", doc |-> d]

\* 619-626: the row named by document_name gets the remote id
sales_item_submission_on_success(d, i, rid) ==
    /\ item_slade_id' = [item_slade_id EXCEPT ![d][i] = rid]
    /\ UNCHANGED <<custom_successfully_submitted, custom_transition_successful,
                   is_return, queue, sign_enqueued, fetch_enqueued>>
    /\ UNCHANGED <<revision_count, credit_notes, override_runs,
                   custom_slade_id, scu_set, mismatches>>

\* 424-430: the jobs handle_transition_success enqueues
TransitionSuccessJobs_AlsoFetch(d) == <<SignJob(d), FetchJob(d)>>

TransitionSuccessJobs(d) == <<SignJob(d)>>

CountKind(jobs, kind) ==
    Cardinality({k \in DOMAIN jobs : jobs[k].kind = kind})

\* 422-430
handle_transition_success(d) ==
    /\ custom_transition_successful' =
           [custom_transition_successful EXCEPT ![d] = 1]
    /\ queue' = queue \o TransitionSuccessJobs(d)
    /\ sign_enqueued' = [sign_enqueued EXCEPT ![d] =
           @ + CountKind(TransitionSuccessJobs(d), "process_sales_sign")]
    /\ fetch_enqueued' = [fetch_enqueued EXCEPT ![d] =
           @ + CountKind(TransitionSuccessJobs(d), "get_invoice_details")]
    /\ UNCHANGED <<custom_successfully_submitted, is_return, item_slade_id>>
    /\ UNCHANGED <<revision_count, credit_notes, override_runs,
                   custom_slade_id, scu_set, mismatches>>

\* 451-463
handle_invoice_sign_success(d) ==
    /\ custom_successfully_submitted' =
           [custom_successfully_submitted EXCEPT ![d] = 1]
    /\ queue' = Append(queue, FetchJob(d))
    /\ fetch_enqueued' = Inc(fetch_enqueued, d)
    /\ UNCHANGED <<custom_transition_successful, is_return, item_slade_id,
                   sign_enqueued>>
    /\ UNCHANGED <<revision_count, credit_notes, override_runs,
                   custom_slade_id, scu_set, mismatches>>

(***************************************************************************)
(* Python float arithmetic (IEEE 754 binary64), as used by the amounts of  *)
(* is_invoice_data_matching: every operation yields the exact result      *)
(* rounded to 53 significant binary digits, ties to even                   *)
(***************************************************************************)
\* significant binary digits of a binary64 number
MantissaBits == 53

\* binary digits kept below the unit when a decimal is converted
FracBits == 70

\* a natural number is kept as its digits in base 2^LimbBits, least
\* significant first
LimbBits == 13

Base == 2 ^ LimbBits

Max2(a, b) == IF a >= b THEN a ELSE b

RECURSIVE Limbs(_)
Limbs(n) == IF n = 0 THEN <<>> ELSE <<n % Base>> \o Limbs(n \div Base)

Limb(a, k) == IF k \in DOMAIN a THEN a[k] ELSE 0

ShiftLimbs(a, n) == [k \in 1 .. n |-> 0] \o a

RECURSIVE AddFrom(_, _, _, _)
AddFrom(a, b, k, carry) ==
    IF k > Max2(Len(a), Len(b))
    THEN IF carry > 0 THEN <<carry>> ELSE <<>>
    ELSE LET s == Limb(a, k) + Limb(b, k) + carry
         IN  <<s % Base>> \o AddFrom(a, b, k + 1, s \div Base)

AddNat(a, b) == AddFrom(a, b, 1, 0)

RECURSIVE MulSmallFrom(_, _, _, _)
MulSmallFrom(a, f, k, carry) ==
    IF k > Len(a)
    THEN IF carry > 0 THEN <<carry>> ELSE <<>>
    ELSE LET t == a[k] * f + carry
         IN  <<t % Base>> \o MulSmallFrom(a, f, k + 1, t \div Base)

\* a times f, for 0 <= f <= Base
MulSmall(a, f) == MulSmallFrom(a, f, 1, 0)

RECURSIVE MulFrom(_, _, _)
MulFrom(a, b, k) ==
    IF k > Len(b) THEN <<>>
    ELSE AddNat(ShiftLimbs(MulSmall(a, b[k]), k - 1), MulFrom(a, b, k + 1))

MulNat(a, b) == MulFrom(a, b, 1)

\* long division of a by d, 0 < d <= Base, from the top digit down
RECURSIVE DivFrom(_, _, _, _)
DivFrom(a, d, k, rem) ==
    IF k = 0 THEN [q |-> <<>>, r |-> rem]
    ELSE LET t == rem * Base + a[k]
             rest == DivFrom(a, d, k - 1, t % d)
         IN  [q |-> Append(rest.q, t \div d), r |-> rest.r]

DivSmall(a, d) == DivFrom(a, d, Len(a), 0)

\* number of binary digits of a
BitLen(a) ==
    IF \A k \in DOMAIN a : a[k] = 0 THEN 0
    ELSE LET top == CHOOSE k \in DOMAIN a :
                        a[k] # 0 /\ \A j \in DOMAIN a : j > k => a[j] = 0
             n == CHOOSE n \in 1 .. LimbBits : 2 ^ (n - 1) <= a[top] /\ a[top] < 2 ^ n
         IN  LimbBits * (top - 1) + n

ShiftLeftBits(a, n) ==
    ShiftLimbs(MulSmall(a, 2 ^ (n % LimbBits)), n \div LimbBits)

ShiftRightBits(a, n) ==
    DivSmall(SubSeq(a, n \div LimbBits + 1, Len(a)), 2 ^ (n % LimbBits)).q

\* binary digit k of a, the lowest being digit 0
BitOf(a, k) == (Limb(a, k \div LimbBits + 1) \div 2 ^ (k % LimbBits)) % 2

\* some binary digit of a below digit n is 1
LowNonzero(a, n) ==
    \/ \E j \in 1 .. n \div LimbBits : Limb(a, j) # 0
    \/ Limb(a, n \div LimbBits + 1) % 2 ^ (n % LimbBits) # 0

\* round to nearest, ties to even, to MantissaBits significant digits
RoundMantissa(m, sticky) ==
    LET cut == BitLen(m) - MantissaBits
    IN  IF cut <= 0 THEN m
        ELSE LET kept == ShiftRightBits(m, cut)
                 up == /\ BitOf(m, cut - 1) = 1
                       /\ \/ sticky
                          \/ LowNonzero(m, cut - 1)
                          \/ BitOf(kept, 0) = 1
             IN  ShiftLeftBits(IF up THEN AddNat(kept, <<1>>) ELSE kept, cut)

\* the binary64 number nearest to n / d: mantissa m, value m / 2^e
FromRatio(n, d) ==
    LET dv == DivSmall(ShiftLeftBits(Limbs(n), FracBits), d)
    IN  [m |-> RoundMantissa(dv.q, dv.r # 0), e |-> FracBits]

fadd(x, y) ==
    LET e == Max2(x.e, y.e)
    IN  [m |-> RoundMantissa(AddNat(ShiftLeftBits(x.m, e - x.e),
                                    ShiftLeftBits(y.m, e - y.e)), FALSE),
         e |-> e]

fmul(x, y) ==
    [m |-> RoundMantissa(MulNat(x.m, y.m), FALSE), e |-> x.e + y.e]

RECURSIVE IntOf(_, _)
IntOf(a, k) == IF k > Len(a) THEN 0 ELSE a[k] + Base * IntOf(a, k + 1)

\* round(x, 0): nearest whole number, ties to even
fround(x) ==
    LET whole == IntOf(ShiftRightBits(x.m, x.e), 1)
        half == x.e >= 1 /\ BitOf(x.m, x.e - 1) = 1
        rest == x.e >= 1 /\ LowNonzero(x.m, x.e - 1)
    IN  IF half /\ (rest \/ whole % 2 = 1) THEN whole + 1 ELSE whole

\* the int 0 that sum() starts from
FloatZero == [m |-> <<>>, e |-> 0]

\* float(n) of a whole number n
FromInt(n) == [m |-> Limbs(n), e |-> 0]

\* x / n for a whole number n, 0 < n <= Base
fdiv_int(x, n) ==
    LET dv == DivSmall(ShiftLeftBits(x.m, FracBits), n)
    IN  [m |-> RoundMantissa(dv.q, dv.r # 0), e |-> x.e + FracBits]

\* x == 0
IsZero(x) == \A k \in DOMAIN x.m : x.m[k] = 0

\* a <= b for natural numbers
LeqNat(a, b) ==
    LET differ == {k \in 1 .. Max2(Len(a), Len(b)) : Limb(a, k) # Limb(b, k)}
    IN  \/ differ = {}
        \/ LET top == CHOOSE k \in differ : \A j \in differ : j <= k
            IN  Limb(a, top) < Limb(b, top)

\* a - b for natural numbers a >= b
RECURSIVE SubFrom(_, _, _, _)
SubFrom(a, b, k, borrow) ==
    IF k > Len(a) THEN <<>>
    ELSE LET t == a[k] - Limb(b, k) - borrow
         IN  <<t % Base>> \o SubFrom(a, b, k + 1, IF t < 0 THEN 1 ELSE 0)

SubNat(a, b) == SubFrom(a, b, 1, 0)

\* x >= n for a whole number n
fge_int(x, n) == LeqNat(ShiftLeftBits(Limbs(n), x.e), x.m)

\* x == y
feq(x, y) ==
    LET e == Max2(x.e, y.e)
        a == ShiftLeftBits(x.m, e - x.e)
        b == ShiftLeftBits(y.m, e - y.e)
    IN  LeqNat(a, b) /\ LeqNat(b, a)

(***************************************************************************)
(* Reconciliation (remote_response_status_handlers.py 479-568)             *)
(***************************************************************************)
\* Python round(x, 0) of n/unit: to the nearest whole number, ties to even
RoundHalfEven(n, unit) ==
    LET q == n \div unit
        r == n % unit
    IN  IF 2 * r < unit THEN q
        ELSE IF 2 * r > unit THEN q + 1
        ELSE IF q % 2 = 0 THEN q ELSE q + 1

\* 550-554: (quantity to the whole unit, price to 2 decimals, their product)
normalize(quantity, unit_price) ==
    LET qty == RoundHalfEven(quantity, 100)
    IN  <<qty, unit_price, qty * unit_price>>

\* list.remove(x): drops the first occurrence
RECURSIVE RemoveFirst(_, _)
RemoveFirst(seq, x) ==
    IF seq = <<>> THEN <<>>
    ELSE IF Head(seq) = x THEN Tail(seq)
    ELSE <<Head(seq)>> \o RemoveFirst(Tail(seq), x)

InSeq(seq, x) == \E k \in DOMAIN seq : seq[k] = x

\* 561-568: every payload item finds an unused response line
RECURSIVE AllPaired(_, _)
AllPaired(payload_items, normalized_response) ==
    IF payload_items = <<>> THEN TRUE
    ELSE LET p_norm == normalize(Head(payload_items).quantity,
                                 Head(payload_items).unit_price)
         IN  IF InSeq(normalized_response, p_norm)
             THEN AllPaired(Tail(payload_items),
                            RemoveFirst(normalized_response, p_norm))
             ELSE FALSE

\* 544: sum(i.get('unit_price', 0) * i.get('quantity', 0) for i in
\* payload_items): the products are added one after the other, in the
\* order of the list, starting from 0
RECURSIVE SumFrom(_, _)
SumFrom(items, acc) ==
    IF items = <<>> THEN acc
    ELSE SumFrom(Tail(items),
                 fadd(acc, fmul(FromRatio(Head(items).unit_price, 100),
                                FromRatio(Head(items).quantity, 100))))

SumProducts(items) == SumFrom(items, FloatZero)

\* 544, 547: round(float(payload_total), 0), payload_total being
\* payload.get('amount') or the sum over the items
PayloadTotalRounded(payload) ==
    IF payload.amount # 0 THEN RoundHalfEven(payload.amount, 100)
    ELSE fround(SumProducts(payload.itemDetails))

\* 532-568. payload.itemDetails is <<>> and payload.amount is 0 when the
\* payload has no such key; the snapshot's lines and total are those of
\* sales_credit_note_lines / crn_total_amount when it is a credit note,
\* of sales_invoice_lines / total_gross_amount otherwise.
is_invoice_data_matching(payload, response_data) ==
    LET payload_items == payload.itemDetails
        response_items == response_data.lines
        response_total == IF response_data.is_credit_note
                          THEN response_data.crn_total_amount
                          ELSE response_data.total_gross_amount
        normalized_response ==
            [k \in DOMAIN response_items |->
                normalize(response_items[k].quantity,
                          response_items[k].price_inclusive_tax)]
    IN  IF Len(payload_items) # Len(response_items) THEN FALSE
        ELSE IF PayloadTotalRounded(payload)
                    # RoundHalfEven(response_total, 100) THEN FALSE
        ELSE AllPaired(payload_items, normalized_response)

\* the rows of the documents, in hundredths: qty and the tax-inclusive
\* price base_net_rate + custom_tax_amount / qty (utils.py 581-588)
InvoiceItems(d) == <<[qty |-> 200, price_with_tax |-> 5150]>>

\* utils.py 580-593: one entry of saleItemList per row
saleItemList(d) ==
    [k \in DOMAIN InvoiceItems(d) |->
        [unitPrice |-> InvoiceItems(d)[k].price_with_tax,
         quantity |-> InvoiceItems(d)[k].qty]]

\* utils.py 550-598: the payload carries saleItemList and header fields; it
\* has neither an 'itemDetails' nor an 'amount' key
build_invoice_payload(d) ==
    [itemDetails |-> <<>>, amount |-> 0, saleItemList |-> saleItemList(d)]

\* utils.py 1673-1740: keys document_name, invoice_reference, refund_reason,
\* amount and items; amount is the snapshot's total_gross_amount for a full
\* return that has one, the return's own total otherwise
build_return_invoice_payload(d, kra_invoice_data, is_full_return) ==
    [itemDetails |-> <<>>,
     amount |-> IF is_full_return /\ kra_invoice_data.total_gross_amount # 0
                THEN kra_invoice_data.total_gross_amount
                ELSE ReturnTotal]

\* remote snapshots answered to get_invoice_details
Snapshots ==
    [scu_data : BOOLEAN, is_credit_note : {FALSE}, lines : RemoteLineSeqs,
     total_gross_amount : Totals, crn_total_amount : {0}]
    \cup
    [scu_data : BOOLEAN, is_credit_note : {TRUE}, lines : RemoteLineSeqs,
     total_gross_amount : {0}, crn_total_amount : Totals]

\* 501: `from ..overrides.server.shared_overrides import
\* generic_invoices_on_submit_override`. shared_overrides.py defines
\* generic_invoices_before_submit, handle_etims_success_response,
\* generate_and_attach_qr_code and validate; the three definitions of
\* generic_invoices_on_submit_override in it (175-316) are commented out,
\* so the import statement raises ImportError.
generic_invoices_on_submit_override_Importable == TRUE

generic_invoices_on_submit_override_defined == FALSE

\* 510: allowed_revisions and revision_count > allowed_revisions
CeilingReached(allowed_revisions, new_count) ==
    allowed_revisions # 0 /\ new_count > allowed_revisions

\* 500-529: the branch taken on a mismatch when the document is not in
\* status 'Credit Note Issued'
MismatchBranch(d) ==
    IF ~generic_invoices_on_submit_override_defined
    THEN \* ImportError at 501, caught by make_remote_call (332)
         UNCHANGED <<revision_count, credit_notes, override_runs>>
    ELSE IF CeilingReached(max_allowed_revisions, revision_count[d] + 1)
    THEN UNCHANGED <<revision_count, credit_notes, override_runs>>
    ELSE /\ revision_count' = Inc(revision_count, d)
         /\ override_runs' = Inc(override_runs, d)
         /\ credit_notes' = IF is_return[d] THEN credit_notes
                            ELSE Inc(credit_notes, d)

\* 479-529
update_invoice_info(d, data, is_full_return) ==
    LET invoice_data == IF is_return[d]
                        THEN build_return_invoice_payload(d, data, is_full_return)
                        ELSE build_invoice_payload(d)
    IN  IF ~data.scu_data
        THEN UNCHANGED <<revision_count, credit_notes, override_runs,
                         custom_slade_id, scu_set, mismatches>>
        ELSE IF is_invoice_data_matching(invoice_data, data)
        THEN /\ custom_slade_id' = [custom_slade_id EXCEPT ![d] = RemoteInvoiceId(d)]
             /\ scu_set' = [scu_set EXCEPT ![d] = TRUE]
             /\ UNCHANGED <<revision_count, credit_notes, override_runs,
                            mismatches>>
        ELSE /\ mismatches' = Inc(mismatches, d)
             /\ UNCHANGED <<custom_slade_id, scu_set>>
             /\ IF status[d] # "Credit Note Issued"
                THEN MismatchBranch(d)
                ELSE UNCHANGED <<revision_count, credit_notes, override_runs>>

NoHandlerEffect ==
    UNCHANGED <<docvars, queue, sign_enqueued, fetch_enqueued, revision_count,
                credit_notes, override_runs, custom_slade_id, scu_set,
                mismatches>>

\* the id in the body of a 200/201 answer: a PATCH answers with the id of
\* the patched entity, a POST with the id of the entity it created
AnswerIds(b) == IF b.method = "PATCH" /\ b.id # 0 THEN {b.id}
                ELSE ResponseIds(b.item)

\* api_builder.py 271-273: self._success_callback_handler(response=...,
\* document_name=..., doctype=..., payload=..., settings_name=...)
RunSuccessHandler ==
    LET h == binding.handler
        d == binding.doc
    IN  CASE h = "sales_item_submission_on_success" ->
               \E rid \in AnswerIds(binding) :
                   sales_item_submission_on_success(d, binding.item, rid)
          [] h = "handle_transition_success" -> handle_transition_success(d)
          [] h = "handle_invoice_sign_success" -> handle_invoice_sign_success(d)
          [] h = "update_invoice_info" ->
               /\ \E data \in Snapshots, is_full_return \in BOOLEAN :
                      update_invoice_info(d, data, is_full_return)
               /\ UNCHANGED <<docvars, queue, sign_enqueued, fetch_enqueued>>
          [] OTHER -> NoHandlerEffect

\* api_builder.py 263-289: a 200/201 response. The Integration Request is
\* set Completed (264-269), then the bound success handler runs (271-273);
\* if it raises, the except clause (332) returns None and the bookkeeping
\* of 275-289 is skipped.
SuccessBranch ==
    /\ cpc = "success"
    /\ log_status' = "Completed"
    /\ success_calls' = success_calls + 1
    /\ \/ EndCall(FALSE) /\ RunSuccessHandler
       \/ EndCall(TRUE) /\ NoHandlerEffect
    /\ UNCHANGED <<wirevars, retrying, status_code, binding, sent, refreshes, resends,
                   notifier_calls, error_calls, first_401>>
    /\ UNCHANGED <<job, submits, acks_transition, acks_sign, acks_fetch,
                   posts_with_id, sweepvars>>
    /\ UNCHANGED <<status, max_allowed_revisions, fetches, extvars>>

CallStep == SendRequest \/ SuccessBranch \/ FailureBranch \/ RefreshAndRetry

(***************************************************************************)
(* Initial states                                                          *)
(***************************************************************************)
CallInit ==
    /\ cpc = "idle"
    /\ retrying = FALSE
    /\ status_code = 0
    /\ binding = NoBinding
    /\ sent = 0
    /\ refreshes = 0
    /\ resends = 0
    /\ success_calls = 0
    /\ notifier_calls = 0
    /\ error_calls = 0
    /\ first_401 = FALSE
    /\ log_status = "-"
    /\ result = "-"
    /\ url = <<>>
    /\ payload_id = 0
    /\ wire = <<>>

ZeroPerDoc == [d \in Docs |-> 0]

\* no before_submit hook has run
NoHooks ==
    /\ etims_sent = ZeroPerDoc
    /\ other_submitted = [o \in OtherDocs |-> 0]
    /\ other_sent = [o \in OtherDocs |-> 0]
    /\ hook = NoHook
    /\ hooks_run = 0

\* handle_invoice_submission has not run
NoAttempts ==
    /\ custom_submission_attempts = [i \in Invoices |-> 0]
    /\ action_calls = [i \in Invoices |-> 0]
    /\ action_raises = [i \in Invoices |-> 0]
    /\ skips = [i \in Invoices |-> 0]
    /\ attempt_runs = 0

\* the error callback has not run
NoErrors ==
    /\ retry_jobs = ZeroPerDoc
    /\ item_registrations = 0
    /\ customer_registrations = 0
    /\ onerr = NoOnErr
    /\ onerr_runs = 0

\* is_invoice_data_matching is not being looked at on its own
NoMatching ==
    /\ m_payload = [itemDetails |-> <<>>, amount |-> 0]
    /\ m_response = [scu_data |-> FALSE, is_credit_note |-> FALSE,
                     lines |-> <<>>, total_gross_amount |-> 0,
                     crn_total_amount |-> 0]
    /\ m_result = "-"

\* ---- strings of the Integration Request ----
\* the cut of lines 386, 389, 394, 397, 402 and 405
TextCap == 5000

Fill(c, n) == [i \in 1..n |-> c]

\* the four characters n, u, l, l
Null == <<"n", "u", "l", "l">>

Newline == <<"\n">>

Dash == <<" ", "-", " ">>

NoUpdate == [status |-> "-", error |-> <<>>, output |-> <<>>,
             request_description |-> <<>>, stored |-> <<>>]

\* create_request_log has made the record, nothing was written to it since
NoLogTexts ==
    /\ log_error = <<>>
    /\ log_output = <<>>
    /\ log_description = <<>>
    /\ upd = NoUpdate
    /\ updates = 0

NotCalled == [kind |-> "-", value |-> <<>>]

\* get_response_data is not being looked at on its own
NoResponse ==
    /\ content_type = <<>>
    /\ resp_body = <<>>
    /\ resp_data = NotCalled

NoPayload == [kind |-> "-", lines |-> <<>>]

NoTaxRun == [function |-> "-", registration |-> "-", raised |-> FALSE]

\* no document is being looked at by the payload builders
NoTaxes ==
    /\ tax_doc = [items |-> <<>>, taxes |-> <<>>]
    /\ tax_payload = NoPayload
    /\ tax_run = NoTaxRun
    /\ tax_runs = 0

\* the configured password is stored, no reset was asked for
NoResets ==
    /\ auth_password = 0
    /\ reset_logs = <<>>

\* workers of the queue "long" that run process_invoice_items
MaxWorkers == 2

Workers == 1 .. MaxWorkers

NoRacer == [pc |-> "idle", idx |-> 0, snapshot |-> [i \in Items |-> 0]]

\* no worker has started, the remote holds no line
NoRace ==
    /\ racers = [w \in Workers |-> NoRacer]
    /\ line_creates = [i \in Items |-> 0]

\* no retry job has been run
NoRetryRuns == retry_runs = [d \in Docs |-> 0]

NoLater == NoResets /\ NoRace /\ NoRetryRuns

NoRest == NoLogTexts /\ NoResponse /\ NoTaxes /\ NoLater

NoAux ==
    /\ NoErrors
    /\ NoMatching
    /\ NoRest

\* build_headers has not run, no header built
NoHeaders ==
    /\ exchanges = 0
    /\ header_token = 0
    /\ bh = NoBh

\* a token is stored and has not expired
ValidToken ==
    /\ NoHeaders
    /\ access_token = OldToken
    /\ token_expiry = "future"

\* whatever the settings hold: no token or a token, with no expiry, an
\* expiry in the past or one in the future
AnyToken ==
    /\ NoHeaders
    /\ access_token \in {0, OldToken}
    /\ token_expiry \in {"absent", "past", "future"}

\* nothing has run yet: no row saved, nothing enqueued, no history
QuietBase ==
    /\ custom_successfully_submitted = ZeroPerDoc
    /\ custom_transition_successful = ZeroPerDoc
    /\ item_slade_id = [d \in Docs |-> [i \in Items |-> 0]]
    /\ queue = <<>>
    /\ job = NoJob
    /\ submits = ZeroPerDoc
    /\ acks_transition = ZeroPerDoc
    /\ acks_sign = ZeroPerDoc
    /\ acks_fetch = ZeroPerDoc
    /\ sign_enqueued = ZeroPerDoc
    /\ fetch_enqueued = ZeroPerDoc
    /\ posts_with_id = [d \in Docs |-> [i \in Items |-> 0]]
    /\ sweeps = 0
    /\ sweep_seen = [d \in Docs |-> "-"]
    /\ sweep_resumed = [d \in Docs |-> "-"]
    /\ scu_set = [d \in Docs |-> FALSE]
    /\ credit_notes = ZeroPerDoc
    /\ override_runs = ZeroPerDoc
    /\ mismatches = ZeroPerDoc
    /\ fetches = ZeroPerDoc

\* nothing has run yet at all
QuietInit ==
    /\ QuietBase
    /\ NoHooks
    /\ NoAttempts
    /\ NoAux

\* documents that were never revised, under the largest ceiling
FreshDocs ==
    /\ revision_count = ZeroPerDoc
    /\ status = [d \in Docs |-> "Unpaid"]
    /\ max_allowed_revisions = MaxRevisions
    /\ custom_slade_id = [d \in Docs |-> RemoteInvoiceId(d)]

\* documents submitted in the ERP and known to the remote service by
\* their remote id, invoices or returns
OrchInit ==
    /\ CallInit
    /\ QuietInit
    /\ FreshDocs
    /\ ValidToken
    /\ original_submitted = [d \in Docs |-> 1]
    /\ max_tries = DefaultMaxTries
    /\ is_return \in [Docs -> BOOLEAN]

\* any ceiling, any revision count the ceiling admits, any status
ReconInit ==
    /\ CallInit
    /\ QuietInit
    /\ ValidToken
    /\ original_submitted = [d \in Docs |-> 1]
    /\ max_tries = DefaultMaxTries
    /\ is_return \in [Docs -> BOOLEAN]
    /\ status \in [Docs -> {"Unpaid", "Credit Note Issued"}]
    /\ max_allowed_revisions \in 0 .. MaxRevisions
    /\ revision_count \in [Docs -> 0 .. max_allowed_revisions]
    /\ custom_slade_id = ZeroPerDoc

(***************************************************************************)
(* The sales orchestrator (remote_response_status_handlers.py 352-476)     *)
(***************************************************************************)
\* process_request(payload, route_key, handler, request_method, doctype):
\* sets url, headers, method, payload and the success handler on the
\* builder and calls make_remote_call; it binds no error callback unless
\* one is passed and returns whatever make_remote_call returns
process_request(b) == BeginCall(b)

\* 399-402: POST, or PATCH carrying the row's remote id when it has one
request_method_AlwaysPost(slade_id) == "POST"

request_method(slade_id) == IF slade_id # 0 THEN "PATCH" ELSE "POST"

\* 372-374 and 387-410: the request saving row i of document d
ItemRequest(d, i, snapshot) ==
    [handler |-> "sales_item_submission_on_success",
     errcb |-> FALSE,
     method |-> request_method(snapshot[i]),
     route |-> IF is_return[d] THEN "SalesCreditNoteLineReq"
               ELSE "SalesLineSaveReq",
     doc |-> d, item |-> i,
     id |-> IF request_method(snapshot[i]) = "PATCH" THEN snapshot[i] ELSE 0]

\* 432-443
TransitionRequest(d) ==
    [handler |-> "handle_transition_success", errcb |-> FALSE,
     method |-> "PATCH",
     route |-> IF is_return[d] THEN "SalesCreditNoteTransitionReq"
               ELSE "SalesTransitionReq",
     doc |-> d, item |-> 0, id |-> 0]

\* 465-476
SignRequest(d) ==
    [handler |-> "handle_invoice_sign_success", errcb |-> FALSE,
     method |-> "POST",
     route |-> IF is_return[d] THEN "SalesCreditNoteSignReq"
               ELSE "SalesSignInvReq",
     doc |-> d, item |-> 0, id |-> 0]

\* get_invoice_details(id, document_name, invoice_type): GET of the
\* finalized remote record, answered to update_invoice_info
FetchRequest(d) ==
    [handler |-> "update_invoice_info", errcb |-> FALSE, method |-> "GET",
     route |-> "SalesInvoiceSearchReq", doc |-> d, item |-> 0, id |-> 0]

WorkerIdle == cpc = "idle" /\ job = NoJob

\* the call that just returned was answered 200/201 on its last leg
CallAnswered == status_code \in {200, 201}

\* 352-410, first pass of the loop: process_invoice_items(document_name,
\* doctype, invoice_slade_id) loads the invoice and sends the first row
process_invoice_items(d) ==
    /\ WorkerIdle
    /\ submits[d] < MaxSubmits
    /\ submits' = Inc(submits, d)
    /\ job' = [kind |-> "process_invoice_items", doc |-> d, idx |-> 1,
               snapshot |-> item_slade_id[d], failed |-> FALSE]
    /\ process_request(ItemRequest(d, 1, item_slade_id[d]))
    /\ UNCHANGED <<docvars, queue, histvars, sweepvars, reconvars, extvars>>

\* 378-410: process_request returned; the loop goes on to the next row,
\* whatever the outcome of the request was
ItemsLoopNext ==
    /\ job.kind = "process_invoice_items"
    /\ cpc = "done"
    /\ job.idx < MaxItems
    /\ job' = [job EXCEPT !.idx = @ + 1,
                          !.failed = @ \/ ~CallAnswered]
    /\ process_request(ItemRequest(job.doc, job.idx + 1, job.snapshot))
    /\ UNCHANGED <<docvars, queue, submits, histvars, sweepvars, reconvars, extvars>>

\* 412 with 415-443: after the last row, process_sales_transition
ItemsLoopTransition ==
    /\ job.kind = "process_invoice_items"
    /\ cpc = "done"
    /\ job.idx = MaxItems
    /\ job' = [job EXCEPT !.idx = @ + 1,
                          !.failed = @ \/ ~CallAnswered]
    /\ process_request(TransitionRequest(job.doc))
    /\ UNCHANGED <<docvars, queue, submits, histvars, sweepvars, reconvars, extvars>>

\* a worker takes the oldest job of the queue: process_sales_sign (446-476)
\* or get_invoice_details
RunJob ==
    /\ WorkerIdle
    /\ queue # <<>>
    /\ queue' = Tail(queue)
    /\ job' = [NoJob EXCEPT !.kind = Head(queue).kind, !.doc = Head(queue).doc]
    /\ process_request(IF Head(queue).kind = "process_sales_sign"
                       THEN SignRequest(Head(queue).doc)
                       ELSE FetchRequest(Head(queue).doc))
    /\ UNCHANGED <<docvars, submits, histvars, sweepvars, reconvars, extvars>>

\* the handler returns: process_invoice_items after the transition
\* request, process_sales_sign and get_invoice_details after theirs
HandlerReturn ==
    /\ cpc = "done"
    /\ \/ job.kind = "process_invoice_items" /\ job.idx = MaxItems + 1
       \/ job.kind \in {"process_sales_sign", "get_invoice_details"}
    /\ cpc' = "idle"
    /\ job' = NoJob
    /\ UNCHANGED <<wirevars, retrying, status_code, binding, sent, refreshes, resends,
                   success_calls, notifier_calls, error_calls, first_401,
                   log_status, result>>
    /\ UNCHANGED <<docvars, queue, submits, histvars, sweepvars, reconvars, extvars>>

\* the worker dies between two steps: the job waiting in the queue is lost
Crash ==
    /\ WorkerIdle
    /\ queue # <<>>
    /\ queue' = Tail(queue)
    /\ UNCHANGED <<callvars, docvars, job, submits, histvars, sweepvars,
                   reconvars, extvars>>

(***************************************************************************)
(* The periodic sweep (background_tasks/tasks.py 70-118, 150-204)          *)
(***************************************************************************)
\* 150-151: `from ..overrides.server.sales_invoice import on_submit`;
\* sales_invoice.py defines before_submit, before_cancel and
\* send_invoice_details only
on_submit_defined == FALSE

\* 177-178: `from ..apis.apis import get_invoice_details`; apis.py has no
\* such function
get_invoice_details_defined == FALSE

\* 75-82: docstatus 1, custom_successfully_submitted 0, recent
all_submitted_unsent == {d \in Docs : custom_successfully_submitted[d] = 0}

\* what the persisted flags of a document with no job pending say about
\* the last completed orchestrator step
PersistedStep(d) ==
    IF \E k \in DOMAIN queue : queue[k].doc = d THEN "pending"
    ELSE IF custom_successfully_submitted[d] = 1 THEN "signed"
    ELSE IF custom_transition_successful[d] = 1 THEN "transitioned"
    ELSE "sent"

\* 150-156 and 121-147: submit_new_invoices raises ImportError before
\* handle_invoice_submission is reached, so no document is acted upon;
\* with on_submit importable each unsent document would be submitted anew
submit_new_invoices(d) == IF on_submit_defined THEN "restart" ELSE "none"

\* 84-92: docstatus 1, custom_successfully_submitted 1, no QR code, recent
successful_without_scu_data ==
    {d \in Docs : custom_successfully_submitted[d] = 1 /\ ~scu_set[d]}

\* 176-178: fetch_scu_data raises ImportError at its first statement,
\* outside its try block
fetch_scu_data(d) == IF get_invoice_details_defined THEN "fetch" ELSE "none"

\* 70-94: send_sales_invoices_information. The branches that called
\* process_sent_invoices and sign_processed_invoices are commented out
\* (96-118); an exception of submit_new_invoices ends the sweep before
\* fetch_scu_data is reached.
SweepStep(d) ==
    IF d \in all_submitted_unsent THEN submit_new_invoices(d)
    ELSE IF /\ d \in successful_without_scu_data
            /\ (all_submitted_unsent = {} \/ on_submit_defined)
         THEN fetch_scu_data(d)
    ELSE "none"

send_sales_invoices_information ==
    /\ WorkerIdle
    /\ sweeps < MaxSweeps
    /\ sweeps' = sweeps + 1
    /\ \E sales_auto_submission_enabled \in BOOLEAN :
         IF sales_auto_submission_enabled
         THEN /\ sweep_seen' = [d \in Docs |-> PersistedStep(d)]
              /\ sweep_resumed' = [d \in Docs |-> SweepStep(d)]
         ELSE UNCHANGED <<sweep_seen, sweep_resumed>>
    /\ UNCHANGED <<callvars, docvars, jobvars, histvars, reconvars, extvars>>

OrchNext ==
    \/ \E d \in Docs : process_invoice_items(d)
    \/ ItemsLoopNext
    \/ ItemsLoopTransition
    \/ RunJob
    \/ HandlerReturn
    \/ Crash
    \/ send_sales_invoices_information
    \/ SendRequest
    \/ SuccessBranch
    \/ FailureBranch
    \/ RefreshAndRetry

OrchSpec == OrchInit /\ [][OrchNext]_vars

(***************************************************************************)
(* RaceSpec: process_invoice_items of one document on several workers.     *)
(* A request is taken with its answer: make_remote_call as a whole either  *)
(* ran the success handler on a 200/201 or did not.                        *)
(***************************************************************************)
RaceDoc == "SINV-1"

RaceFrame ==
    UNCHANGED <<callvars, submits, job, acks_transition, acks_sign, acks_fetch,
                posts_with_id, sweepvars, status, max_allowed_revisions,
                fetches, hookvars, authvars, attemptvars, errvars, matchvars,
                rest_but_race>>

\* 361: invoice = frappe.get_doc(doctype, document_name); the rows and
\* their custom_slade_id are those of this moment
race_load(w) ==
    /\ racers[w].pc = "idle"
    /\ racers' = [racers EXCEPT ![w] =
           [pc |-> "rows", idx |-> 1, snapshot |-> item_slade_id[RaceDoc]]]
    /\ UNCHANGED line_creates
    /\ NoHandlerEffect
    /\ RaceFrame

\* 378-410: one pass of the loop. The method comes from the row as loaded
\* (399-402); a POST answered 200/201 made a line on the remote, and the
\* success handler stores the id of the answer on the row (619-626)
race_row(w) ==
    LET i == racers[w].idx
        method == request_method(racers[w].snapshot[i])
    IN  /\ racers[w].pc = "rows"
        /\ racers' = [racers EXCEPT ![w] =
               IF i < MaxItems THEN [@ EXCEPT !.idx = i + 1]
               ELSE [@ EXCEPT !.pc = "transition"]]
        /\ \E ok \in BOOLEAN :
             IF ok
             THEN /\ line_creates' =
                       IF method = "POST"
                       THEN [line_creates EXCEPT ![i] = @ + 1]
                       ELSE line_creates
                  /\ \E rid \in (IF method = "PATCH"
                                  THEN {racers[w].snapshot[i]}
                                  ELSE ResponseIds(i)) :
                         sales_item_submission_on_success(RaceDoc, i, rid)
             ELSE UNCHANGED line_creates /\ NoHandlerEffect
        /\ RaceFrame

\* 412 with 415-443: process_sales_transition after the last row
race_transition(w) ==
    /\ racers[w].pc = "transition"
    /\ racers' = [racers EXCEPT ![w].pc = "done"]
    /\ UNCHANGED line_creates
    /\ \E ok \in BOOLEAN :
         IF ok THEN handle_transition_success(RaceDoc) ELSE NoHandlerEffect
    /\ RaceFrame

RaceInit ==
    /\ CallInit
    /\ FreshDocs
    /\ QuietInit
    /\ ValidToken
    /\ is_return \in [Docs -> BOOLEAN]
    /\ original_submitted = [d \in Docs |-> 1]
    /\ max_tries = DefaultMaxTries

RaceNext ==
    \/ \E w \in Workers : race_load(w)
    \/ \E w \in Workers : race_row(w)
    \/ \E w \in Workers : race_transition(w)

RaceSpec == RaceInit /\ [][RaceNext]_vars

(***************************************************************************)
(* ReconSpec: get_invoice_details and update_invoice_info                  *)
(***************************************************************************)
\* get_invoice_details(id, document_name, invoice_type) is run, by the job
\* the sign callback enqueued or by a caller of the API
get_invoice_details(d) ==
    /\ WorkerIdle
    /\ fetches[d] < MaxFetches
    /\ fetches' = Inc(fetches, d)
    /\ job' = [NoJob EXCEPT !.kind = "get_invoice_details", !.doc = d]
    /\ process_request(FetchRequest(d))
    /\ UNCHANGED <<orchvars_but_job, revision_count, status,
                   max_allowed_revisions, custom_slade_id, scu_set,
                   credit_notes, override_runs, mismatches, extvars>>

ReconNext ==
    \/ \E d \in Docs : get_invoice_details(d)
    \/ HandlerReturn
    \/ SendRequest
    \/ SuccessBranch
    \/ FailureBranch
    \/ RefreshAndRetry

ReconSpec == ReconInit /\ [][ReconNext]_vars

(***************************************************************************)
(* The before_submit hooks (overrides/server)                              *)
(***************************************************************************)
\* shared_overrides.py 10 imports send_invoice_to_etims from apis.apis and
\* calls it as send_invoice_to_etims(payload, api_url) (46, 53); it reads
\* response.get("status") of what comes back (56). A sender of that
\* contract: the parsed body, or a body with status False when the request
\* or the parsing fails.
send_invoice_to_etims(answer) == answer = "true"

\* apis.py 224-243: response.json(), or {"status": False, ...} from either
\* except clause
send_payload_to_etims(answer) == answer = "true"

\* sales_invoice.py 25, purchase_invoice.py 55, stock_reconciliation.py 44:
\* `if not item_doc.custom_item_code_etims: frappe.throw(...)` in the loop
\* over doc.items that opens the function
ItemUnregistered_Never(missing_item) == FALSE

ItemUnregistered(missing_item) == missing_item

\* purchase_invoice.py 137-139, stock_reconciliation.py 79-81:
\* `tax_code = item_doc.custom_eTims_tax_code or ""`, `if not tax_code:
\* frappe.throw(...)` in the builder's loop over doc.items
TaxCodeMissing(missing_tax_code) == missing_tax_code

\* shared_overrides.py 29
SubmissionSkipped_NoStatus(prevent, etr_invoice_number, doc_status) ==
    prevent \/ etr_invoice_number

SubmissionSkipped(prevent, etr_invoice_number, doc_status) ==
    prevent \/ etr_invoice_number \/ doc_status = "Credit Note Issued"

\* shared_overrides.py 33-38: the return's original is not submitted
ReturnBlocked_Never(d) == FALSE

ReturnBlocked(d) == is_return[d] /\ original_submitted[d] = 0

\* shared_overrides.py 56: `if not response.get("status")`
ResponseRejected_Never(ok) == FALSE

ResponseRejected(ok) == ~ok

HookEnds(doctype, d, missing_item, missing_tax_code, answer, stage, was_sent) ==
    hook' = [doctype |-> doctype, doc |-> d, missing_item |-> missing_item,
             missing_tax_code |-> missing_tax_code,
             answer |-> IF was_sent THEN answer ELSE "-",
             stage |-> stage, sent |-> was_sent]

\* shared_overrides.py 22-64 with handle_etims_success_response (67-99).
\* build_creditnote_payload (42) and build_invoice_payload (51) take the
\* tax code of a line from calculate_tax, which falls back to "A"
\* (utils.py 757-762, 584, 643): a line without a tax code of its own does
\* not stop them, the payload is built and sent.
generic_invoices_before_submit(d, missing_item, missing_tax_code, etr_number, answer, qr_error) ==
    LET Ends(stage, was_sent) ==
            HookEnds("Sales Invoice", d, missing_item, missing_tax_code,
                     answer, stage, was_sent)
    IN  IF SubmissionSkipped(FALSE, etr_number, status[d])
        THEN /\ Ends("exempt", FALSE)
             /\ UNCHANGED <<custom_successfully_submitted, scu_set, etims_sent>>
        ELSE IF ReturnBlocked(d)
        THEN /\ Ends("original", FALSE)
             /\ UNCHANGED <<custom_successfully_submitted, scu_set, etims_sent>>
        ELSE /\ etims_sent' = Inc(etims_sent, d)
             /\ IF ResponseRejected(send_invoice_to_etims(answer))
                THEN /\ Ends("rejected", TRUE)
                     /\ UNCHANGED <<custom_successfully_submitted, scu_set>>
                ELSE IF qr_error
                THEN /\ Ends("response", TRUE)
                     /\ UNCHANGED <<custom_successfully_submitted, scu_set>>
                ELSE /\ Ends("marked", TRUE)
                     /\ custom_successfully_submitted' =
                            [custom_successfully_submitted EXCEPT ![d] = 1]
                     /\ scu_set' = [scu_set EXCEPT ![d] = TRUE]

\* sales_invoice.py 8-39: before_submit of a Sales Invoice. Line 4 imports
\* shared_overrides, whose line 10 names send_invoice_to_etims: where the
\* apis module does not provide it the hook cannot be loaded and the
\* submission ends with ImportError.
before_submit(d) ==
    /\ cpc = "idle"
    /\ job = NoJob
    /\ hooks_run < MaxHooks
    /\ hooks_run' = hooks_run + 1
    /\ \E loaded, missing_item, missing_tax_code, prevent, etr_invoice_number,
          is_opening, qr_error \in BOOLEAN, answer \in EtimsAnswers :
         IF ~loaded
         THEN /\ HookEnds("Sales Invoice", d, missing_item, missing_tax_code,
                          answer, "import", FALSE)
              /\ UNCHANGED <<custom_successfully_submitted, scu_set, etims_sent>>
         ELSE IF ItemUnregistered(missing_item)
         THEN /\ HookEnds("Sales Invoice", d, missing_item, missing_tax_code,
                          answer, "items", FALSE)
              /\ UNCHANGED <<custom_successfully_submitted, scu_set, etims_sent>>
         ELSE IF /\ custom_successfully_submitted[d] = 0
                 /\ ~prevent
                 /\ ~is_opening
         THEN generic_invoices_before_submit(d, missing_item,
                                             missing_tax_code,
                                             etr_invoice_number, answer,
                                             qr_error)
         ELSE /\ HookEnds("Sales Invoice", d, missing_item, missing_tax_code,
                          answer, "guard", FALSE)
              /\ UNCHANGED <<custom_successfully_submitted, scu_set, etims_sent>>
    /\ UNCHANGED <<callvars, custom_transition_successful, is_return,
                   item_slade_id, jobvars, histvars, sweepvars>>
    /\ UNCHANGED <<revision_count, status, max_allowed_revisions,
                   custom_slade_id, credit_notes, override_runs, mismatches,
                   fetches>>
    /\ UNCHANGED <<original_submitted, other_submitted, other_sent, authvars,
                   attemptvars, auxvars>>

\* purchase_invoice.py 71: "Purchase already exist" in response.get("message")
PurchaseAlreadyExists(answer) == answer = "exists"

OtherHookFrame ==
    /\ UNCHANGED <<callvars, orchvars, reconvars, original_submitted,
                   etims_sent, authvars, attemptvars, auxvars>>

\* purchase_invoice.py 49-112: submit_purchase_invoice. A return is not
\* sent; build_purchase_invoice_payload (116-165) throws for an item without
\* a tax code (138-143); an answer whose message says 'Purchase already
\* exist' counts as accepted.
submit_purchase_invoice ==
    /\ cpc = "idle"
    /\ job = NoJob
    /\ hooks_run < MaxHooks
    /\ hooks_run' = hooks_run + 1
    /\ \E missing_item, missing_tax_code, purchase_is_return \in BOOLEAN,
          answer \in EtimsAnswers :
         LET Ends(stage, was_sent) ==
                 HookEnds("Purchase Invoice", "PINV-1", missing_item,
                          missing_tax_code, answer, stage, was_sent)
             accepted == send_payload_to_etims(answer)
                         \/ PurchaseAlreadyExists(answer)
         IN  IF ItemUnregistered(missing_item)
             THEN Ends("items", FALSE) /\ UNCHANGED <<other_submitted, other_sent>>
             ELSE IF purchase_is_return
             THEN Ends("guard", FALSE) /\ UNCHANGED <<other_submitted, other_sent>>
             ELSE IF TaxCodeMissing(missing_tax_code)
             THEN Ends("tax_code", FALSE) /\ UNCHANGED <<other_submitted, other_sent>>
             ELSE /\ other_sent' = [other_sent EXCEPT !["PINV-1"] = @ + 1]
                  /\ IF accepted
                     THEN /\ Ends("marked", TRUE)
                          /\ other_submitted' =
                                 [other_submitted EXCEPT !["PINV-1"] = 1]
                     ELSE /\ Ends("rejected", TRUE)
                          /\ UNCHANGED other_submitted
    /\ OtherHookFrame

\* stock_reconciliation.py 40-66: submit_stock_reconciliation;
\* build_stock_reconciliation_payload (69-95) throws for an item without a
\* tax code
submit_stock_reconciliation ==
    /\ cpc = "idle"
    /\ job = NoJob
    /\ hooks_run < MaxHooks
    /\ hooks_run' = hooks_run + 1
    /\ \E missing_item, missing_tax_code \in BOOLEAN, answer \in EtimsAnswers :
         LET Ends(stage, was_sent) ==
                 HookEnds("Stock Reconciliation", "SR-1", missing_item,
                          missing_tax_code, answer, stage, was_sent)
         IN  IF ItemUnregistered(missing_item)
             THEN Ends("items", FALSE) /\ UNCHANGED <<other_submitted, other_sent>>
             ELSE IF TaxCodeMissing(missing_tax_code)
             THEN Ends("tax_code", FALSE) /\ UNCHANGED <<other_submitted, other_sent>>
             ELSE /\ other_sent' = [other_sent EXCEPT !["SR-1"] = @ + 1]
                  /\ IF ResponseRejected(send_payload_to_etims(answer))
                     THEN /\ Ends("rejected", TRUE)
                          /\ UNCHANGED other_submitted
                     ELSE /\ Ends("marked", TRUE)
                          /\ other_submitted' =
                                 [other_submitted EXCEPT !["SR-1"] = 1]
    /\ OtherHookFrame

\* drafts being submitted: invoices and returns, in any status, whose
\* original is or is not submitted
SubmitInit ==
    /\ CallInit
    /\ QuietInit
    /\ ValidToken
    /\ max_tries = DefaultMaxTries
    /\ is_return \in [Docs -> BOOLEAN]
    /\ original_submitted \in [Docs -> 0 .. 1]
    /\ status \in [Docs -> {"Draft", "Credit Note Issued"}]
    /\ revision_count = ZeroPerDoc
    /\ max_allowed_revisions = MaxRevisions
    /\ custom_slade_id = ZeroPerDoc

SubmitNext ==
    \/ \E d \in Docs : before_submit(d)
    \/ submit_purchase_invoice
    \/ submit_stock_reconciliation
    \/ \E d \in Docs : get_invoice_details(d)
    \/ HandlerReturn
    \/ SendRequest
    \/ SuccessBranch
    \/ FailureBranch

SubmitSpec == SubmitInit /\ [][SubmitNext]_vars

(***************************************************************************)
(* The attempt counter of the sweep (tasks.py 121-147)                     *)
(***************************************************************************)
\* tasks.py 128: `if tries >= max_tries: continue`
AttemptsExhausted_Off(tries) == tries > max_tries

AttemptsExhausted(tries) == tries >= max_tries

\* tasks.py 121-147: one run over the invoices the caller selected
\* (sign_processed_invoices 159-165, process_sent_invoices 168-174);
\* action_func returns or raises for each invoice, and both the try and the
\* except clause store tries + 1
handle_invoice_submission ==
    /\ attempt_runs < MaxAttemptRuns
    /\ attempt_runs' = attempt_runs + 1
    /\ \E invoices \in SUBSET Invoices :
       \E raises \in SUBSET invoices :
         LET tries(i) == custom_submission_attempts[i]
             acted == {i \in invoices : ~AttemptsExhausted(tries(i))}
         IN  /\ invoices # {}
             /\ custom_submission_attempts' =
                    [i \in Invoices |->
                        IF i \in acted THEN tries(i) + 1 ELSE tries(i)]
             /\ action_calls' =
                    [i \in Invoices |->
                        IF i \in acted THEN action_calls[i] + 1
                        ELSE action_calls[i]]
             /\ action_raises' =
                    [i \in Invoices |->
                        IF i \in acted \cap raises THEN action_raises[i] + 1
                        ELSE action_raises[i]]
             /\ skips' =
                    [i \in Invoices |->
                        IF i \in invoices \ acted THEN skips[i] + 1
                        ELSE skips[i]]
    /\ UNCHANGED <<callvars, orchvars, reconvars, hookvars, authvars,
                   max_tries, auxvars>>

\* get_max_submission_attempts (utils.py 1315-1325): the configured
\* maximum, 3 when the settings do not name one
AttemptInit ==
    /\ CallInit
    /\ FreshDocs
    /\ QuietInit
    /\ ValidToken
    /\ is_return = [d \in Docs |-> FALSE]
    /\ original_submitted = [d \in Docs |-> 1]
    /\ max_tries \in 1 .. DefaultMaxTries

AttemptNext == handle_invoice_submission

AttemptSpec == AttemptInit /\ [][AttemptNext]_vars

(***************************************************************************)
(* FairSweepSpec: the scheduler runs send_sales_invoices_information again *)
(* and again, sales_auto_submission_enabled being set, over documents as   *)
(* they are stored; no orchestrator job is running.                        *)
(***************************************************************************)
\* tasks.py 177-204 for one invoice: the import of 178 comes first; then
\* an invoice whose custom_submission_attempts reached the maximum is
\* passed over (183-187), any other has get_invoice_details called (188)
fetch_scu_data_for(d) ==
    IF fetch_scu_data(d) = "fetch"
          /\ ~AttemptsExhausted(custom_submission_attempts[d])
    THEN "fetch" ELSE "none"

SweepOutcome(d) ==
    IF SweepStep(d) = "fetch" THEN fetch_scu_data_for(d) ELSE SweepStep(d)

\* tasks.py 70-94 past the test of 72-73. fetch_scu_data stores tries + 1
\* for an invoice it called get_invoice_details for (189-194, 200-203);
\* sweeps counts up to MaxSweeps and the sweeps go on
recurring_sweep ==
    /\ WorkerIdle
    /\ sweeps' = IF sweeps < MaxSweeps THEN sweeps + 1 ELSE sweeps
    /\ sweep_seen' = [d \in Docs |-> PersistedStep(d)]
    /\ sweep_resumed' = [d \in Docs |-> SweepOutcome(d)]
    /\ custom_submission_attempts' =
           [i \in Invoices |->
               IF i \in Docs /\ SweepOutcome(i) = "fetch"
               THEN custom_submission_attempts[i] + 1
               ELSE custom_submission_attempts[i]]
    /\ UNCHANGED <<action_calls, action_raises, skips, max_tries,
                   attempt_runs>>
    /\ UNCHANGED <<callvars, docvars, jobvars, histvars, reconvars, hookvars,
                   authvars, auxvars>>

\* stored invoices: sent or not, any number of attempts recorded, none
\* with SCU data
SweepInit ==
    /\ CallInit
    /\ FreshDocs
    /\ NoHooks
    /\ NoAux
    /\ ValidToken
    /\ original_submitted = [d \in Docs |-> 1]
    /\ is_return \in [Docs -> BOOLEAN]
    /\ custom_successfully_submitted \in [Docs -> 0 .. 1]
    /\ custom_transition_successful \in [Docs -> 0 .. 1]
    /\ item_slade_id = [d \in Docs |-> [i \in Items |-> 0]]
    /\ queue = <<>>
    /\ job = NoJob
    /\ submits = ZeroPerDoc
    /\ acks_transition = ZeroPerDoc
    /\ acks_sign = ZeroPerDoc
    /\ acks_fetch = ZeroPerDoc
    /\ sign_enqueued = ZeroPerDoc
    /\ fetch_enqueued = ZeroPerDoc
    /\ posts_with_id = [d \in Docs |-> [i \in Items |-> 0]]
    /\ sweeps = 0
    /\ sweep_seen = [d \in Docs |-> "-"]
    /\ sweep_resumed = [d \in Docs |-> "-"]
    /\ scu_set = [d \in Docs |-> FALSE]
    /\ credit_notes = ZeroPerDoc
    /\ override_runs = ZeroPerDoc
    /\ mismatches = ZeroPerDoc
    /\ fetches = ZeroPerDoc
    /\ max_tries \in 1 .. DefaultMaxTries
    /\ custom_submission_attempts \in [Invoices -> 0 .. DefaultMaxTries]
    /\ action_calls = [i \in Invoices |-> 0]
    /\ action_raises = [i \in Invoices |-> 0]
    /\ skips = [i \in Invoices |-> 0]
    /\ attempt_runs = 0

SweepNext == recurring_sweep

FairSweepSpec == SweepInit /\ [][SweepNext]_vars /\ WF_vars(SweepNext)

(***************************************************************************)
(* build_headers (utils.py 243-297)                                        *)
(***************************************************************************)
\* utils.py 261-268: the stored token cannot be used as it is
HeadersStale(token, expiry) ==
    token = 0 \/ expiry = "absent" \/ expiry = "past"

BhEnds(outcome, header, expiry) ==
    bh' = [pre_token |-> access_token, pre_expiry |-> token_expiry,
           outcome |-> outcome, exchanged |-> exchanges' - exchanges,
           header |-> header, expiry |-> expiry]

\* utils.py 243-297: None without settings; for a stale token
\* update_navari_settings_with_token(settings.get("name")) and the token
\* of the settings it returns; an exception of the update leaves
\* build_headers without a result
build_headers ==
    /\ cpc = "idle"
    /\ exchanges < MaxExchanges
    /\ \E settings_found \in BOOLEAN :
         IF ~settings_found
         THEN /\ UNCHANGED <<access_token, token_expiry, exchanges,
                             header_token>>
              /\ BhEnds("none", 0, "-")
         ELSE IF HeadersStale(access_token, token_expiry)
         THEN \E out \in {"returned", "raised"} :
                /\ update_navari_settings_with_token(FALSE, out)
                /\ IF out = "raised"
                   THEN /\ BhEnds("raised", 0, "-")
                        /\ UNCHANGED header_token
                   ELSE /\ BhEnds("headers", access_token', token_expiry')
                        /\ header_token' = access_token'
         ELSE /\ UNCHANGED <<access_token, token_expiry, exchanges>>
              /\ BhEnds("headers", access_token, token_expiry)
              /\ header_token' = access_token
    /\ UNCHANGED <<callvars, orchvars, reconvars, hookvars, attemptvars,
                   auxvars>>

\* utils.py 266: time passes and datetime.now() overtakes token_expiry
TokenExpires ==
    /\ token_expiry = "future"
    /\ token_expiry' = "past"
    /\ UNCHANGED <<access_token, exchanges, header_token, bh>>
    /\ UNCHANGED <<callvars, orchvars, reconvars, hookvars, attemptvars,
                   auxvars>>

AuthInit ==
    /\ CallInit
    /\ FreshDocs
    /\ QuietInit
    /\ AnyToken
    /\ is_return = [d \in Docs |-> FALSE]
    /\ original_submitted = [d \in Docs |-> 1]
    /\ max_tries = DefaultMaxTries

AuthNext ==
    \/ build_headers
    \/ TokenExpires

AuthSpec == AuthInit /\ [][AuthNext]_vars

(***************************************************************************)
(* The error callback of a sales submission                                *)
(* (remote_response_status_handlers.py 301-327)                            *)
(***************************************************************************)
\* apis.py 18-19: def perform_item_registration(item_name: str); a call
\* with any other number of positional arguments is a TypeError
perform_item_registration_accepts(nargs) == nargs = 1

OnErrEnds(d, texts, lines, stage) ==
    onerr' = [doc |-> d, texts |-> texts, lines |-> lines, stage |-> stage]

\* 301-327. Stages: import (302: sales_invoice cannot be imported, see
\* before_submit), registration (308 raises: perform_item_registration is
\* called with item.item_code and settings_name), customer (321 raises),
\* retried (a send_invoice_details job was enqueued), ignored (neither
\* message in the text). send_branch_customer_details (apis.py 339-365)
\* enqueues the registration of the customer, or returns without doing so
\* for a disabled customer.
sales_information_submission_on_error(d) ==
    /\ cpc = "idle"
    /\ onerr_runs < MaxErrors
    /\ onerr_runs' = onerr_runs + 1
    /\ \E loaded \in BOOLEAN, texts \in ErrorTexts, lines \in 1 .. MaxItems,
          customer \in {"queued", "skipped", "raised"} :
         LET Ends(stage) == OnErrEnds(d, texts, lines, stage)
             Retry == retry_jobs' = Inc(retry_jobs, d)
         IN  IF ~loaded
             THEN /\ Ends("import")
                  /\ UNCHANGED <<retry_jobs, item_registrations,
                                 customer_registrations>>
             ELSE IF "Product" \in texts
             THEN IF perform_item_registration_accepts(2)
                  THEN /\ Ends("retried")
                       /\ item_registrations' = item_registrations + lines
                       /\ Retry
                       /\ UNCHANGED customer_registrations
                  ELSE /\ Ends("registration")
                       /\ UNCHANGED <<retry_jobs, item_registrations,
                                      customer_registrations>>
             ELSE IF "BusinessPartner" \in texts
             THEN IF customer = "raised"
                  THEN /\ Ends("customer")
                       /\ UNCHANGED <<retry_jobs, item_registrations,
                                      customer_registrations>>
                  ELSE /\ Ends("retried")
                       /\ customer_registrations' =
                              IF customer = "queued"
                              THEN customer_registrations + 1
                              ELSE customer_registrations
                       /\ Retry
                       /\ UNCHANGED item_registrations
             ELSE /\ Ends("ignored")
                  /\ UNCHANGED <<retry_jobs, item_registrations,
                                 customer_registrations>>
    /\ UNCHANGED <<callvars, orchvars, reconvars, hookvars, authvars,
                   attemptvars, matchvars, restvars>>

ErrInit ==
    /\ CallInit
    /\ FreshDocs
    /\ QuietInit
    /\ ValidToken
    /\ is_return \in [Docs -> BOOLEAN]
    /\ original_submitted = [d \in Docs |-> 1]
    /\ max_tries = DefaultMaxTries

\* sales_invoice.py 57-62, run by a worker for a job enqueued at 310-316
\* or 322-327 (frappe.enqueue with job_name retry_invoice_{name}_{time}: a
\* label, the queue holds every job enqueued). For an opening invoice the
\* function returns; otherwise it calls generic_invoices_on_submit_override,
\* a name sales_invoice.py neither defines nor imports (4): NameError.
\* Either way the job sends nothing and changes no document.
send_invoice_details(d) ==
    /\ cpc = "idle"
    /\ retry_runs[d] < retry_jobs[d]
    /\ retry_runs' = Inc(retry_runs, d)
    /\ UNCHANGED <<callvars, orchvars, reconvars, hookvars, authvars,
                   attemptvars, errvars, matchvars, rest_but_retry>>

ErrNext ==
    \/ \E d \in Docs : sales_information_submission_on_error(d)
    \/ \E d \in Docs : send_invoice_details(d)

ErrSpec == ErrInit /\ [][ErrNext]_vars

(***************************************************************************)
(* MatchSpec: is_invoice_data_matching applied to a payload and a          *)
(* snapshot, and applied again after the lines of either were reordered    *)
(***************************************************************************)
\* the boolean is_invoice_data_matching returns, by name
Verdict(payload, response_data) ==
    IF is_invoice_data_matching(payload, response_data) THEN "Match"
    ELSE "Mismatch"

MatchFrame ==
    UNCHANGED <<callvars, orchvars, reconvars, hookvars, authvars,
                attemptvars, errvars, restvars>>

Compare ==
    /\ m_result = "-"
    /\ m_result' = Verdict(m_payload, m_response)
    /\ UNCHANGED <<m_payload, m_response>>
    /\ MatchFrame

ReorderResponse ==
    /\ m_result # "-"
    /\ \E lines \in Reorderings(m_response.lines) :
         /\ lines # m_response.lines
         /\ m_response' = [m_response EXCEPT !.lines = lines]
    /\ m_result' = Verdict(m_payload, m_response')
    /\ UNCHANGED m_payload
    /\ MatchFrame

ReorderPayload ==
    /\ m_result # "-"
    /\ \E items \in Reorderings(m_payload.itemDetails) :
         /\ items # m_payload.itemDetails
         /\ m_payload' = [m_payload EXCEPT !.itemDetails = items]
    /\ m_result' = Verdict(m_payload', m_response)
    /\ UNCHANGED m_response
    /\ MatchFrame

MatchInit ==
    /\ CallInit
    /\ FreshDocs
    /\ QuietBase
    /\ NoHooks
    /\ NoAttempts
    /\ NoErrors
    /\ NoRest
    /\ ValidToken
    /\ is_return = [d \in Docs |-> FALSE]
    /\ original_submitted = [d \in Docs |-> 1]
    /\ max_tries = DefaultMaxTries
    /\ m_payload \in MatchPayloads
    /\ m_response \in MatchResponses
    /\ m_result = "-"

MatchNext ==
    \/ Compare
    \/ ReorderResponse
    \/ ReorderPayload

MatchSpec == MatchInit /\ [][MatchNext]_vars

(***************************************************************************)
(* InfoSpec: update_invoice_info on a document and a remote snapshot       *)
(***************************************************************************)
\* 479-529 as the success handler of get_invoice_details: m_response is
\* the snapshot, m_payload the payload built at 488, m_result the branch
reconcile(d) ==
    /\ m_result = "-"
    /\ \E is_full_return \in BOOLEAN :
         /\ m_payload' =
              IF is_return[d]
              THEN build_return_invoice_payload(d, m_response, is_full_return)
              ELSE build_invoice_payload(d)
         /\ update_invoice_info(d, m_response, is_full_return)
    /\ m_result' = Verdict(m_payload', m_response)
    /\ UNCHANGED m_response
    /\ UNCHANGED <<callvars, orchvars, status, max_allowed_revisions, fetches,
                   hookvars, authvars, attemptvars, errvars, restvars>>

InfoInit ==
    /\ CallInit
    /\ QuietBase
    /\ NoHooks
    /\ NoAttempts
    /\ NoErrors
    /\ NoRest
    /\ ValidToken
    /\ original_submitted = [d \in Docs |-> 1]
    /\ max_tries = DefaultMaxTries
    /\ is_return \in [Docs -> BOOLEAN]
    /\ status \in [Docs -> {"Unpaid", "Credit Note Issued"}]
    /\ max_allowed_revisions \in 0 .. MaxRevisions
    /\ revision_count \in [Docs -> 0 .. max_allowed_revisions]
    /\ custom_slade_id = ZeroPerDoc
    /\ m_payload = [itemDetails |-> <<>>, amount |-> 0]
    /\ m_response \in {data \in Snapshots : data.scu_data}
    /\ m_result = "-"

InfoNext == \E d \in Docs : reconcile(d)

InfoSpec == InfoInit /\ [][InfoNext]_vars

(***************************************************************************)
(* CallSpec: make_remote_call on its own                                   *)
(***************************************************************************)
\* a caller sets up the builder (any method, error callback bound or not)
\* and calls make_remote_call(doctype, document_name)
StartCall ==
    /\ CallIdle
    /\ job = NoJob
    /\ exchanges < MaxExchanges
    /\ \E b \in Bindings : b.handler = "none" /\ BeginCall(b)
    /\ UNCHANGED <<orchvars, reconvars, extvars>>

\* make_remote_call has returned to its caller
ReturnToCaller ==
    /\ cpc = "done"
    /\ job = NoJob
    /\ cpc' = "idle"
    /\ UNCHANGED <<wirevars, retrying, status_code, binding, sent, refreshes, resends,
                   success_calls, notifier_calls, error_calls, first_401,
                   log_status, result>>
    /\ UNCHANGED <<orchvars, reconvars, extvars>>

CallNext == StartCall \/ SendRequest \/ SuccessBranch \/ FailureBranch
            \/ RefreshAndRetry \/ ReturnToCaller

\* ---- UrlSpec: make_remote_call with any URL and any id in the payload ----
MaxUrlLen == 3

Chars == {Slash, 1, 2}

\* a host followed by up to MaxUrlLen characters
Urls == UNION {{<<Text>> \o p : p \in [1..n -> Chars]} : n \in 0..MaxUrlLen}

PayloadIds == {0, 1, 2}

\* a caller sets url, payload and method of a new builder through the
\* setters (107-108, 131-132) and calls make_remote_call(doctype,
\* document_name)
SetUpAndCall ==
    /\ CallIdle
    /\ job = NoJob
    /\ log_status = "-"
    /\ \E b \in Bindings, u \in Urls, id \in PayloadIds :
         b.handler = "none" /\ BeginCallTo(b, u, id)
    /\ UNCHANGED <<orchvars, reconvars, extvars>>

UrlNext == SetUpAndCall \/ SendRequest \/ SuccessBranch \/ FailureBranch
           \/ RefreshAndRetry \/ ReturnToCaller

\* a builder on which no call was made yet, no document in the works
CallSpecInit ==
    /\ CallInit
    /\ QuietInit
    /\ FreshDocs
    /\ AnyToken
    /\ original_submitted = [d \in Docs |-> 1]
    /\ max_tries = DefaultMaxTries
    /\ is_return = [d \in Docs |-> FALSE]

CallSpec == CallSpecInit /\ [][CallNext]_vars

\* the interpreter runs a started call to its end
FairCallSpec == CallSpec /\ WF_vars(CallStep)

UrlInit ==
    /\ CallInit
    /\ QuietInit
    /\ FreshDocs
    /\ ValidToken
    /\ original_submitted = [d \in Docs |-> 1]
    /\ max_tries = DefaultMaxTries
    /\ is_return = [d \in Docs |-> FALSE]

UrlSpec == UrlInit /\ [][UrlNext]_vars

(***************************************************************************)
(* C1: one top-level make_remote_call sends at most two HTTP requests and  *)
(* refreshes the token at most once; the second request is the re-send    *)
(* after the refresh; the re-sent leg never refreshes or re-sends; and a   *)
(* started call always returns.                                           *)
(***************************************************************************)
C1_Bounded ==
    /\ sent <= 2
    /\ refreshes <= 1
    /\ resends <= 1
    /\ sent <= 1 + resends
    /\ resends <= refreshes
    /\ retrying => cpc # "refresh"

C1_AtMostTwoRequests == [](C1_Bounded) /\ ((cpc = "send") ~> (cpc = "done"))

\* the re-sent leg was answered 401 and the call ended without a third send
C1_Witness ==
    /\ cpc = "done"
    /\ retrying
    /\ status_code = 401
    /\ sent = 2
    /\ refreshes = 1

(***************************************************************************)
(* C2 (as claimed): every first-leg 401 leads to exactly one token refresh *)
(* and exactly one re-send, whatever the error notifier, the error        *)
(* callback or the password reset do before line 323.                     *)
(***************************************************************************)
C2_Always401RefreshAndRetry ==
    (cpc = "done" /\ first_401) => (refreshes = 1 /\ resends = 1)

C4_TransitionOnlyAfterAllLinesSaved ==
    (/\ job.kind = "process_invoice_items"
     /\ binding.handler = "handle_transition_success"
     /\ cpc # "idle")
        => ~job.failed

(***************************************************************************)
(* C5: a process_sales_sign job is enqueued only by the success callback   *)
(* of a transition request answered 200/201, after                        *)
(* custom_transition_successful was set; a get_invoice_details job is     *)
(* enqueued only by the success callback of a sign request answered       *)
(* 200/201; a failed transition or sign enqueues nothing.                 *)
(***************************************************************************)
C5_CausalOrder ==
    \A d \in Docs :
        /\ sign_enqueued[d] <= acks_transition[d]
        /\ fetch_enqueued[d] <= acks_sign[d]
        /\ sign_enqueued[d] >= 1 => custom_transition_successful[d] = 1
        /\ \A k \in DOMAIN queue :
              queue[k].doc = d =>
                  /\ queue[k].kind = "process_sales_sign" => acks_transition[d] >= 1
                  /\ queue[k].kind = "get_invoice_details" => acks_sign[d] >= 1

\* two runs of the chain: one transition failed and enqueued nothing, the
\* other went through sign, whose callback enqueued the fetch
C5_Witness ==
    \E d \in Docs :
        /\ WorkerIdle
        /\ submits[d] = 2
        /\ acks_transition[d] = 1
        /\ sign_enqueued[d] = 1
        /\ acks_sign[d] = 1
        /\ fetch_enqueued[d] = 1

(***************************************************************************)
(* C6: a row that carries a remote id is submitted with PATCH carrying     *)
(* that id, never with POST: no POST is ever sent for a row whose          *)
(* custom_slade_id is set, over any sequence of runs of                    *)
(* process_invoice_items.                                                  *)
(***************************************************************************)
C6_PatchWhenIdKnown ==
    /\ \A d \in Docs, i \in Items : posts_with_id[d][i] = 0
    /\ (/\ cpc \in {"send", "success", "failure", "refresh"}
        /\ binding.handler = "sales_item_submission_on_success"
        /\ item_slade_id[binding.doc][binding.item] # 0)
            => /\ binding.method = "PATCH"
               /\ binding.id = item_slade_id[binding.doc][binding.item]

\* a re-submission patched a row that was saved by an earlier run
C6_Witness ==
    /\ cpc = "done"
    /\ binding.handler = "sales_item_submission_on_success"
    /\ binding.method = "PATCH"
    /\ CallAnswered
    /\ submits[binding.doc] = 2
    /\ item_slade_id[binding.doc][binding.item] = binding.id

(***************************************************************************)
(* C7 (as claimed): the sweep re-enters the orchestrator at the step that  *)
(* follows the last completed one: save lines/transition for a document   *)
(* with a remote id that is not transitioned, sign for a document that is *)
(* transitioned and not submitted; never a restart.                       *)
(***************************************************************************)
C7_SweepResumesAtNextStep ==
    \A d \in Docs :
        /\ sweep_seen[d] = "sent" => sweep_resumed[d] = "lines"
        /\ sweep_seen[d] = "transitioned" => sweep_resumed[d] = "sign"
        /\ sweep_resumed[d] # "restart"

(***************************************************************************)
(* C8: the persisted revision_count of a document never exceeds            *)
(* max_allowed_revisions, after any sequence of reconciliations.          *)
(***************************************************************************)
C8_RevisionCountCapped ==
    \A d \in Docs : revision_count[d] <= max_allowed_revisions

\* update_invoice_info has handled a mismatch of a document that is not in
\* status 'Credit Note Issued'
C8_Witness ==
    \E d \in Docs :
        /\ mismatches[d] >= 1
        /\ status[d] # "Credit Note Issued"
        /\ cpc = "done"

(***************************************************************************)
(* C9: when update_invoice_info finds a mismatch for a document whose      *)
(* revision_count equals max_allowed_revisions, revision_count is left    *)
(* unchanged, no credit-note request is enqueued, the submission override *)
(* is not run and no other field of the document changes.                 *)
(***************************************************************************)
MismatchHandled(d) == mismatches'[d] = mismatches[d] + 1

C9_Step ==
    \A d \in Docs :
        (MismatchHandled(d) /\ revision_count[d] = max_allowed_revisions)
            => /\ revision_count' = revision_count
               /\ credit_notes' = credit_notes
               /\ override_runs' = override_runs
               /\ queue' = queue
               /\ UNCHANGED <<docvars, status, custom_slade_id, scu_set>>

C9_AtCeilingNothingChanges == [][C9_Step]_vars

\* a mismatch was handled for a document at a ceiling of at least 1
C9_Witness ==
    \E d \in Docs :
        /\ mismatches[d] >= 1
        /\ max_allowed_revisions >= 1
        /\ revision_count[d] = max_allowed_revisions
        /\ status[d] # "Credit Note Issued"
        /\ cpc = "done"

(***************************************************************************)
(* C10 (as claimed): a mismatch for a non-return document with             *)
(* revision_count 0, a status other than 'Credit Note Issued' and a       *)
(* ceiling of at least 1 sets revision_count to 1 and enqueues exactly    *)
(* one CreditNoteSaveReq request.                                          *)
(***************************************************************************)
C10_Step ==
    \A d \in Docs :
        (/\ MismatchHandled(d)
         /\ ~is_return[d]
         /\ revision_count[d] = 0
         /\ status[d] # "Credit Note Issued"
         /\ max_allowed_revisions >= 1)
            => /\ revision_count'[d] = 1
               /\ credit_notes'[d] = credit_notes[d] + 1

C10_MismatchIssuesCreditNote == [][C10_Step]_vars

(***************************************************************************)
(* C11: a Sales Invoice in status 'Credit Note Issued' is left alone: a    *)
(* payload mismatch found by update_invoice_info for it changes no field  *)
(* of the document and enqueues nothing, and generic_invoices_before_     *)
(* submit run for it sends no request to the service.                     *)
(***************************************************************************)
HookRan(doctype) == hooks_run' = hooks_run + 1 /\ hook'.doctype = doctype

C11_Step ==
    /\ \A d \in Docs :
         (MismatchHandled(d) /\ status[d] = "Credit Note Issued")
             => /\ UNCHANGED <<docvars, revision_count, status,
                               custom_slade_id, scu_set>>
                /\ UNCHANGED <<credit_notes, override_runs, queue>>
    /\ (HookRan("Sales Invoice") /\ status[hook'.doc] = "Credit Note Issued")
           => /\ ~hook'.sent
              /\ UNCHANGED <<etims_sent, cpc, sent, queue>>
              /\ UNCHANGED <<docvars, status, scu_set>>

C12_Step ==
    (HookRan("Sales Invoice") /\ is_return[hook'.doc])
        => /\ hook'.sent => original_submitted[hook'.doc] = 1
           /\ original_submitted[hook'.doc] = 0 =>
                 /\ UNCHANGED <<etims_sent, custom_successfully_submitted,
                                scu_set>>
                 /\ hook'.stage \in RaisedStages \cup {"guard", "exempt"}
                 /\ hook'.stage \notin {"import", "items", "guard", "exempt"}
                        => hook'.stage = "original"

C13_Step ==
    (/\ HookRan("Sales Invoice")
     /\ hook'.sent
     /\ hook'.answer \in {"false", "transport"})
        => /\ hook'.stage = "rejected"
           /\ custom_successfully_submitted'[hook'.doc] = 0
           /\ UNCHANGED <<docvars, scu_set, status, custom_slade_id>>

C13_RejectedSubmissionBlocks == [][C13_Step]_vars

\* both kinds of failure have happened: the last request did not get
\* through, an earlier one was answered, and the document is still unmarked
C13_Witness ==
    /\ hook.doctype = "Sales Invoice"
    /\ hook.sent
    /\ hook.answer = "transport"
    /\ hook.stage = "rejected"
    /\ etims_sent[hook.doc] = 2
    /\ custom_successfully_submitted[hook.doc] = 0

(***************************************************************************)
(* C14: when the item of any row has no eTims item code, before_submit of *)
(* a Sales Invoice, submit_purchase_invoice and submit_stock_             *)
(* reconciliation raise before any request is sent or job enqueued, and   *)
(* the document is not marked submitted.                                   *)
(***************************************************************************)
C14_Step ==
    (hooks_run' = hooks_run + 1 /\ hook'.missing_item)
        => /\ hook'.stage \in RaisedStages
           /\ ~hook'.sent
           /\ UNCHANGED <<etims_sent, other_sent, cpc, sent, queue, job>>
           /\ UNCHANGED <<custom_successfully_submitted, other_submitted,
                          scu_set>>

C14_UnregisteredItemBlocks == [][C14_Step]_vars

\* the item check of a hook refused a document that has never been sent
C14_Witness ==
    /\ hook.missing_item
    /\ hook.stage = "items"
    /\ hook.doctype = "Stock Reconciliation"
    /\ other_sent["SR-1"] = 0
    /\ other_submitted["SR-1"] = 0

(***************************************************************************)
(* C15 (as claimed): when the HTTP request of make_remote_call raises a    *)
(* transport-level exception the call returns a failure result, the        *)
(* Integration Request of the call ends in status Failed, not in its      *)
(* initial status, and nothing is re-sent.                                 *)
(***************************************************************************)
C15_TransportErrorMarksFailed ==
    (cpc = "done" /\ sent = 1 /\ status_code = 0)
        => /\ result = "None"
           /\ log_status = "Failed"
           /\ resends = 0

C17_NotifierAndCallbackBothRun ==
    (cpc \in {"done", "refresh"} /\ ~retrying /\ status_code \notin {0, 200, 201})
        => /\ notifier_calls = 1
           /\ binding.errcb => error_calls = 1

(***************************************************************************)
(* C18 (as claimed): build_headers performs exactly one token exchange     *)
(* whenever the stored access_token is absent, the token_expiry is absent *)
(* or the token_expiry has passed, and the Authorization header it then   *)
(* returns carries the newly stored token; with a token present and       *)
(* unexpired it performs none; it never returns headers with an absent or *)
(* expired token.                                                          *)
(***************************************************************************)
C18_StaleTokenExchangedOnce ==
    bh.outcome \in {"headers", "raised"} =>
        /\ HeadersStale(bh.pre_token, bh.pre_expiry) =>
              /\ bh.exchanged = 1
              /\ bh.outcome = "headers" =>
                    /\ bh.header = IssuedToken(exchanges - 1)
                    /\ bh.header # bh.pre_token
        /\ ~HeadersStale(bh.pre_token, bh.pre_expiry) => bh.exchanged = 0
        /\ bh.outcome = "headers" =>
              /\ bh.header # 0
              /\ bh.expiry = "future"

(***************************************************************************)
(* C19 (as claimed): refresh_token, run after a 401, performs a            *)
(* password-grant exchange, persists the new token and its expiry, and    *)
(* the re-sent request carries the token that exchange returned, also     *)
(* when the stored token has not expired.                                  *)
(***************************************************************************)
C19_Step ==
    (cpc = "refresh" /\ cpc' = "send")
        => /\ exchanges' = exchanges + 1
           /\ access_token' = IssuedToken(exchanges)
           /\ token_expiry' = "future"
           /\ header_token' = access_token'

C19_RefreshExchangesToken == [][C19_Step]_vars

(***************************************************************************)
(* C20: over any number of runs one after another, handle_invoice_         *)
(* submission invokes the action for a document at most max_tries times:  *)
(* a document whose custom_submission_attempts has reached max_tries is   *)
(* passed over, every invocation, returning or raising, adds exactly one  *)
(* to the counter, and the counter never exceeds max_tries.               *)
(***************************************************************************)
C20_Step ==
    \A i \in Invoices :
        /\ custom_submission_attempts[i] >= max_tries
               => /\ action_calls'[i] = action_calls[i]
                  /\ custom_submission_attempts'[i] =
                         custom_submission_attempts[i]
        /\ action_calls'[i] - action_calls[i] \in {0, 1}
        /\ custom_submission_attempts'[i] - custom_submission_attempts[i]
               = action_calls'[i] - action_calls[i]
        /\ action_raises'[i] - action_raises[i]
               <= action_calls'[i] - action_calls[i]

C20_AttemptsBounded ==
    /\ [][C20_Step]_vars
    /\ [](\A i \in Invoices :
            /\ action_calls[i] <= max_tries
            /\ custom_submission_attempts[i] <= max_tries
            /\ custom_submission_attempts[i] = action_calls[i])

\* an invoice whose action returned at least once and raised at least
\* once reached max_tries and was passed over by a later run
C20_Witness ==
    \E i \in Invoices :
        /\ custom_submission_attempts[i] = max_tries
        /\ action_raises[i] >= 1
        /\ action_raises[i] < action_calls[i]
        /\ skips[i] >= 1

(***************************************************************************)
(* C21 (as claimed): sales_information_submission_on_error enqueues        *)
(* exactly one retry of send_invoice_details for the document, after      *)
(* registering the duplicated entity anew, exactly when the error text    *)
(* contains one of the two duplicate-entity messages; for any other error *)
(* it registers nothing and enqueues nothing.                              *)
(***************************************************************************)
C21_Step ==
    \A d \in Docs :
        (onerr_runs' = onerr_runs + 1 /\ onerr'.doc = d)
            => /\ onerr'.texts # {} <=> retry_jobs'[d] = retry_jobs[d] + 1
               /\ onerr'.texts = {} =>
                     UNCHANGED <<retry_jobs, item_registrations,
                                 customer_registrations>>

C21_DuplicateErrorRetriesOnce == [][C21_Step]_vars

(***************************************************************************)
(* C22 (as claimed): is_invoice_data_matching does not depend on the order *)
(* of the lines: for every payload and remote snapshot, reordering the    *)
(* remote lines or the payload lines leaves the Match/Mismatch result     *)
(* unchanged.                                                              *)
(***************************************************************************)
C22_Step == (m_result # "-" /\ m_result' # "-") => m_result' = m_result

PairedOneToOne(items, lines) ==
    /\ Len(items) = Len(lines)
    /\ \E pi \in Permutations(DOMAIN items) :
         \A k \in DOMAIN items :
             normalize(items[k].quantity, items[k].unit_price)
                 = normalize(lines[pi[k]].quantity,
                             lines[pi[k]].price_inclusive_tax)

\* the amount of a payload: its 'amount', or else the sum over its items of
\* unit price times quantity, in ten-thousandths
RECURSIVE AggregateAmount(_)
AggregateAmount(items) ==
    IF items = <<>> THEN 0
    ELSE Head(items).unit_price * Head(items).quantity
             + AggregateAmount(Tail(items))

AggregatesAgree(payload, response_data) ==
    (IF payload.amount # 0 THEN RoundHalfEven(payload.amount, 100)
     ELSE RoundHalfEven(AggregateAmount(payload.itemDetails), 10000))
        = RoundHalfEven(IF response_data.is_credit_note
                        THEN response_data.crn_total_amount
                        ELSE response_data.total_gross_amount, 100)

MaxUpdates == 3

\* error texts: none, "null", "l", "x", and two long ones
LogTexts == {<<>>, Null, <<"l">>, <<"x">>, Fill("a", TextCap - 1),
             Fill("b", TextCap + 1)}

\* x[:5000] if len(x) > 5000 else x
Cut(x) == IF Len(x) > TextCap THEN SubSeq(x, 1, TextCap) ELSE x

merged_Always(current, text, sep) ==
    IF text = <<>> THEN current
    ELSE IF current = Null \/ current = <<>> THEN Cut(text)
    ELSE Cut(current \o sep \o text)

\* 383-389 (and 391-397, 399-405): the value of one field after the call;
\* a text that is None or empty leaves the field out of update_fields
merged(current, text, sep) ==
    IF text = <<>> THEN current
    ELSE IF current = Null \/ current = <<>> THEN Cut(text)
    ELSE IF ~Contains(current, text) THEN Cut(current \o sep \o text)
    ELSE current

\* api_builder.py 363-412
update_integration_request(new_status, output, error, request_description) ==
    /\ updates < MaxUpdates
    /\ updates' = updates + 1
    /\ upd' = [status |-> new_status, error |-> error, output |-> output,
               request_description |-> request_description,
               stored |-> log_error]
    /\ log_status' = new_status
    /\ log_error' = merged(log_error, error, Newline)
    /\ log_output' = merged(log_output, output, Newline)
    /\ log_description' = merged(log_description, request_description, Dash)
    /\ UNCHANGED <<cpc, retrying, status_code, binding, sent, refreshes,
                   resends, success_calls, notifier_calls, error_calls,
                   first_401, result, wirevars>>
    /\ UNCHANGED <<orchvars, reconvars, hookvars, authvars, attemptvars,
                   errvars, matchvars, rest_but_log>>

LogInit ==
    /\ CallInit
    /\ FreshDocs
    /\ QuietInit
    /\ ValidToken
    /\ is_return = [d \in Docs |-> FALSE]
    /\ original_submitted = [d \in Docs |-> 1]
    /\ max_tries = DefaultMaxTries

\* the calls there are: 279-290 after a 200/201 (an output, no error, a page
\* description or none), 301-306 after any other answer and 53-58 from the
\* error observer (an error, no output)
LogNext ==
    \/ \E request_description \in {<<>>, <<"p">>} :
         update_integration_request("Completed", <<"o">>, <<>>,
                                    request_description)
    \/ \E error \in LogTexts :
         update_integration_request("Failed", <<>>, error, <<>>)

LogSpec == LogInit /\ [][LogNext]_vars

(***************************************************************************)
(* RespSpec: get_response_data on its own                                  *)
(***************************************************************************)
\* a Content-Type header is a sequence of words; `x in content_type` is
\* Contains on words
MediaTypes ==
    {<<"application", "/", "json">>, <<"APPLICATION", "/", "JSON">>,
     <<"application", "/", "problem+json">>,
     <<"text", "/", "plain">>, <<"text", "/", "html">>,
     <<"Text", "/", "HTML">>, <<"text", "/", "csv">>,
     <<"text", "/", "xml">>, <<"application", "/", "xml">>,
     <<"image", "/", "svg+xml">>,
     <<"application", "/", "octet-stream">>, <<"application", "/", "pdf">>,
     <<"application", "/", "zip">>, <<"image", "/", "png">>}

\* with or without a parameter; <<>>: no Content-Type header, read as ""
ContentTypes ==
    {<<>>} \cup MediaTypes
           \cup {t \o <<";", "charset=utf-8">> : t \in MediaTypes}

\* bodies: empty, a blank, a line break, a word, a JSON document
Bodies == {<<>>, <<" ">>, <<"\n">>, <<"x">>, <<"{", "}">>}

\* str.lower() of a word
lower_word(w) ==
    CASE w = "APPLICATION" -> "application"
      [] w = "JSON" -> "json"
      [] w = "Text" -> "text"
      [] w = "HTML" -> "html"
      [] OTHER -> w

lower(ct) == [i \in 1..Len(ct) |-> lower_word(ct[i])]

Whitespace == {" ", "\n"}

stripped_Not(text) == text

\* text.strip()
stripped(text) ==
    LET solid == {i \in 1..Len(text) : text[i] \notin Whitespace}
    IN  IF solid = {} THEN <<>>
        ELSE SubSeq(text, CHOOSE i \in solid : \A j \in solid : i <= j,
                          CHOOSE i \in solid : \A j \in solid : j <= i)

\* response.json(): the parsed document, or ValueError
json(text) ==
    IF stripped(text) = <<"{", "}">> THEN [kind |-> "parsed", value |-> text]
    ELSE [kind |-> "raised", value |-> <<>>]

None == [kind |-> "None", value |-> <<>>]

\* api_builder.py 344-360
response_data(ct, body) ==
    LET ctl == lower(ct)
        has(a, b) == Contains(ctl, <<a, "/", b>>)
        text == IF stripped(body) # <<>>
                THEN [kind |-> "text", value |-> body] ELSE None
    IN  IF has("application", "json") THEN json(body)
        ELSE IF has("text", "plain") \/ has("text", "html") THEN text
        ELSE IF has("application", "xml") \/ has("text", "xml") THEN text
        ELSE IF \/ has("application", "octet-stream")
                \/ has("application", "pdf")
                \/ has("application", "zip")
        THEN [kind |-> "bytes", value |-> body]
        ELSE None

get_response_data ==
    /\ resp_data = NotCalled
    /\ resp_data' = response_data(content_type, resp_body)
    /\ UNCHANGED <<content_type, resp_body>>
    /\ UNCHANGED <<callvars, orchvars, reconvars, hookvars, authvars,
                   attemptvars, errvars, matchvars, rest_but_resp>>

RespInit ==
    /\ CallInit
    /\ FreshDocs
    /\ QuietBase
    /\ NoHooks
    /\ NoAttempts
    /\ NoErrors
    /\ NoMatching
    /\ NoLogTexts
    /\ NoTaxes
    /\ NoLater
    /\ ValidToken
    /\ is_return = [d \in Docs |-> FALSE]
    /\ original_submitted = [d \in Docs |-> 1]
    /\ max_tries = DefaultMaxTries
    /\ content_type \in ContentTypes
    /\ resp_body \in Bodies
    /\ resp_data = NotCalled

RespNext == get_response_data

RespSpec == RespInit /\ [][RespNext]_vars

(***************************************************************************)
(* TaxSpec: calculate_tax and the sales payload builders (utils.py 550-797) *)
(***************************************************************************)
MaxTaxLines == 2

\* Item Tax Templates: "VAT" (16%, taxation type B) and "Plain" (8%, no
\* taxation type set); "": the line carries none
TemplateRate(t) == CASE t = "VAT" -> 16 [] t = "Plain" -> 8 [] OTHER -> 0

TemplateType(t) == IF t = "VAT" THEN "B" ELSE ""

TaxLine(net, template, registered) ==
    [base_net_amount |-> net, item_tax_template |-> template,
     registered |-> registered, custom_tax_amount |-> FloatZero,
     custom_tax_rate |-> FloatZero, taxation_type_code |-> ""]

\* lines as they come to the builders: whole net amounts, with or without a
\* template, the Item registered remotely or not
TaxLines ==
    {TaxLine(100, "", TRUE), TaxLine(200, "", TRUE), TaxLine(0, "", TRUE),
     TaxLine(200, "", FALSE), TaxLine(100, "VAT", TRUE),
     TaxLine(100, "Plain", TRUE)}

\* the tax_amount of the document's tax rows
TaxRows == {<<>>, <<7>>, <<15>>, <<31>>, <<32, 16>>}

TaxDocs ==
    [items : UNION {[1..n -> TaxLines] : n \in 1..MaxTaxLines},
     taxes : TaxRows]

RECURSIVE SumInts(_)
SumInts(xs) == IF xs = <<>> THEN 0 ELSE xs[1] + SumInts(Tail(xs))

total_tax_amount_First(taxes) == taxes[1]

\* 718: sum(tax.tax_amount for tax in taxes), whole amounts
total_tax_amount(taxes) == SumInts(taxes)

\* 698-706
calculate_item_level_taxes(items) ==
    [i \in DOMAIN items |->
       LET item == items[i]
           tax_rate == IF item.item_tax_template # ""
                       THEN TemplateRate(item.item_tax_template) ELSE 0
           net_times_rate == fmul(FromInt(item.base_net_amount),
                                  FromInt(tax_rate))
       IN  [item EXCEPT
              !.custom_tax_amount = IF tax_rate # 0
                                    THEN fdiv_int(net_times_rate, 100)
                                    ELSE FloatZero,
              !.custom_tax_rate = FromInt(tax_rate)]]

\* 709-728
calculate_document_level_taxes(items, taxes) ==
    LET total_net_amount ==
            SumInts([i \in DOMAIN items |-> items[i].base_net_amount])
    IN  IF total_net_amount = 0 THEN items
        ELSE [i \in DOMAIN items |->
                LET item == items[i]
                    item_ratio == FromRatio(item.base_net_amount,
                                            total_net_amount)
                    amount == fmul(FromInt(total_tax_amount(taxes)),
                                   item_ratio)
                IN  [item EXCEPT
                       !.custom_tax_amount = amount,
                       !.custom_tax_rate =
                           IF item.base_net_amount > 0
                           THEN fmul(fdiv_int(amount, item.base_net_amount),
                                     FromInt(100))
                           ELSE FloatZero]]

\* 779-784
get_taxation_type_from_template(item) ==
    IF item.item_tax_template # "" THEN TemplateType(item.item_tax_template)
    ELSE ""

\* 787-797
get_taxation_type_from_rate(item) ==
    IF fround(item.custom_tax_rate) >= 16 THEN "B"
    ELSE IF fround(item.custom_tax_rate) >= 8 THEN "E"
    ELSE IF IsZero(item.custom_tax_rate) THEN "A"
    ELSE ""

\* 757-762
taxation_type_code(item) ==
    IF get_taxation_type_from_template(item) # ""
    THEN get_taxation_type_from_template(item)
    ELSE IF get_taxation_type_from_rate(item) # ""
    THEN get_taxation_type_from_rate(item)
    ELSE "A"

\* 738-762: the loop over doc.items. For a line whose Item has no
\* custom_item_code_etims it calls perform_item_registration (apis.py
\* 18-56), which returns at once for an Item that is not eligible, throws
\* for one with required fields missing, and otherwise enqueues
\* send_item_to_etims. `registration` says which of the three it is.
set_taxation_type_codes(items, registration) ==
    LET unregistered == {i \in DOMAIN items : ~items[i].registered}
        stop == IF registration = "missing" /\ unregistered # {}
                THEN CHOOSE i \in unregistered : \A j \in unregistered : i <= j
                ELSE Len(items) + 1
    IN  [items |-> [i \in DOMAIN items |->
                      IF i < stop
                      THEN [items[i] EXCEPT
                              !.taxation_type_code = taxation_type_code(items[i])]
                      ELSE items[i]],
         raised |-> stop <= Len(items),
         enqueued |-> IF registration = "queued" THEN Cardinality(unregistered)
                      ELSE 0]

\* 678-694
calculate_tax(doc, registration) ==
    LET has_item_level_tax ==
            \E i \in DOMAIN doc.items : doc.items[i].item_tax_template # ""
        items == IF has_item_level_tax
                 THEN calculate_item_level_taxes(doc.items)
                 ELSE IF doc.taxes # <<>>
                 THEN calculate_document_level_taxes(doc.items, doc.taxes)
                 ELSE doc.items
    IN  set_taxation_type_codes(items, registration)

\* 580-594 and 639-649: the lines of the payload. The unit price, the net
\* rate plus the tax of one unit rounded to four places, is kept as the tax
\* amount it is computed from.
PayloadLines(kind, items) ==
    [i \in DOMAIN items |->
       IF kind = "saleItemList"
       THEN [taxTypeCode |-> IF items[i].taxation_type_code # ""
                             THEN items[i].taxation_type_code ELSE "A",
             tax_amount |-> items[i].custom_tax_amount]
       ELSE [tax_amount |-> items[i].custom_tax_amount]]

\* one run of calculate_tax on a document as it comes, alone (before_save_, 667-675) or from a
\* builder, which then returns the payload unless calculate_tax raised
TaxRun(function, kind) ==
    /\ tax_runs' = tax_runs + 1
    /\ \E registration \in {"ineligible", "missing", "queued"} :
         LET done == calculate_tax(tax_doc, registration)
         IN  /\ tax_doc' = [tax_doc EXCEPT !.items = done.items]
             /\ item_registrations' = item_registrations + done.enqueued
             /\ tax_run' = [function |-> function,
                            registration |-> registration,
                            raised |-> done.raised]
             /\ tax_payload' =
                    IF kind = "-" \/ done.raised THEN tax_payload
                    ELSE [kind |-> kind, lines |-> PayloadLines(kind, done.items)]
    /\ UNCHANGED <<retry_jobs, customer_registrations, onerr, onerr_runs>>
    /\ UNCHANGED <<callvars, orchvars, reconvars, hookvars, authvars,
                   attemptvars, matchvars, rest_but_tax>>

\* 550-598
run_build_invoice_payload ==
    /\ tax_runs = 0
    /\ TaxRun("build_invoice_payload", "saleItemList")

\* 610-653
run_build_creditnote_payload ==
    /\ tax_runs = 0
    /\ TaxRun("build_creditnote_payload", "creditNoteItemsList")

\* 667-675
run_before_save_ ==
    /\ tax_runs = 0
    /\ TaxRun("before_save_", "-")

TaxInit ==
    /\ CallInit
    /\ FreshDocs
    /\ QuietBase
    /\ NoHooks
    /\ NoAttempts
    /\ NoErrors
    /\ NoMatching
    /\ NoLogTexts
    /\ NoResponse
    /\ NoLater
    /\ ValidToken
    /\ is_return = [d \in Docs |-> FALSE]
    /\ original_submitted = [d \in Docs |-> 1]
    /\ max_tries = DefaultMaxTries
    /\ tax_doc \in TaxDocs
    /\ tax_payload = NoPayload
    /\ tax_run = NoTaxRun
    /\ tax_runs = 0

TaxNext ==
    \/ run_build_invoice_payload
    \/ run_build_creditnote_payload
    \/ run_before_save_

TaxSpec == TaxInit /\ [][TaxNext]_vars

(***************************************************************************)
(* C24: the id of a PATCH or PUT goes from the body into the URL, once      *)
(***************************************************************************)
RECURSIVE WithoutTrailingSlash(_)
WithoutTrailingSlash(u) ==
    IF u = <<>> \/ u[Len(u)] # Slash THEN u
    ELSE WithoutTrailingSlash(SubSeq(u, 1, Len(u) - 1))

\* a PATCH or PUT leg is sent
C24_Leg ==
    /\ cpc = "send"
    /\ sent' = sent + 1
    /\ binding.method \in {"PATCH", "PUT"}

\* C24: a PATCH or PUT whose body holds an id and whose URL does not hold
\* "/{id}/" is sent to the URL without trailing slashes followed by
\* "/{id}/", with a body that holds no id; the leg re-sent after a 401 goes
\* to the URL of the first leg, so the id is appended at most once.
C24_Step ==
    C24_Leg =>
      LET req == wire'[Len(wire')]
      IN  /\ (payload_id # 0 /\ ~Contains(url, IdPath(payload_id)))
                => /\ req.url = WithoutTrailingSlash(url) \o IdPath(payload_id)
                   /\ req.id = 0
          /\ retrying => /\ Len(wire) = 1
                          /\ req.url = wire[1].url
                          /\ req.id = 0

C24_IdMovesIntoUrlOnce == [][C24_Step]_vars

\* both legs of a PATCH with id 1 set up for "h/2//" went to "h/2/1/"
C24_Witness ==
    /\ binding.method = "PATCH"
    /\ retrying
    /\ Len(wire) = 2
    /\ wire[1] = [url |-> <<Text, Slash, 2, Slash, 1, Slash>>, id |-> 0]
    /\ wire[2] = wire[1]

(***************************************************************************)
(* C25: the error text of an Integration Request                           *)
(***************************************************************************)
C25_Call == updates' = updates + 1

\* the first TextCap characters
Capped(x) == SubSeq(x, 1, IF Len(x) < TextCap THEN Len(x) ELSE TextCap)

\* the claim as made: the stored error text never exceeds 5000 characters; an
\* update whose error text occurs in the stored text leaves it unchanged,
\* any other error text is appended to a stored text after a newline
C25_StepAsClaimed ==
    C25_Call =>
      LET e == upd'.error
      IN  /\ Len(log_error') <= TextCap
          /\ (e # <<>> /\ Contains(log_error, e)) => log_error' = log_error
          /\ (e # <<>> /\ ~Contains(log_error, e))
                => log_error' = IF log_error = <<>> THEN Capped(e)
                                ELSE Capped(log_error \o Newline \o e)

C25_ErrorCappedAndDeduplicated == [][C25_StepAsClaimed]_vars

\* C25: the stored error text never exceeds 5000 characters. A stored text
\* that is empty or the word "null" is replaced by the update's error text;
\* any other stored text is left unchanged by an error text that occurs in
\* it and gets every other error text appended after a newline; what is
\* stored is cut to 5000 characters.
C25_Step ==
    C25_Call =>
      LET e == upd'.error
          blank == log_error = <<>> \/ log_error = Null
      IN  /\ Len(log_error') <= TextCap
          /\ e = <<>> => log_error' = log_error
          /\ (e # <<>> /\ blank) => log_error' = Capped(e)
          /\ (e # <<>> /\ ~blank /\ Contains(log_error, e))
                => log_error' = log_error
          /\ (e # <<>> /\ ~blank /\ ~Contains(log_error, e))
                => log_error' = Capped(log_error \o Newline \o e)

C25_NullCountsAsEmpty == [][C25_Step]_vars

\* "l" occurs in a stored "null" and has replaced it
C25_Witness ==
    /\ upd.stored = Null
    /\ upd.error = <<"l">>
    /\ log_error = <<"l">>

(***************************************************************************)
(* C26: what get_response_data makes of a response                         *)
(***************************************************************************)
MainType == IF content_type = <<>> THEN "" ELSE lower_word(content_type[1])

SubType == IF content_type = <<>> THEN "" ELSE lower_word(content_type[3])

\* the claim as made: JSON gives the parsed document, every text/* and
\* every */xml type the raw string (null for an empty body), octet-stream,
\* pdf and zip the raw bytes, every other type null
C26_ResponseMappingAsClaimed ==
    resp_data.kind \notin {"-", "raised"} =>
      IF SubType = "json" THEN resp_data.kind = "parsed"
      ELSE IF MainType = "text" \/ SubType = "xml"
      THEN resp_data = IF resp_body = <<>> THEN None
                       ELSE [kind |-> "text", value |-> resp_body]
      ELSE IF SubType \in {"octet-stream", "pdf", "zip"}
      THEN resp_data = [kind |-> "bytes", value |-> resp_body]
      ELSE resp_data = None

\* C26: application/json gives the parsed document; text/plain, text/html,
\* application/xml and text/xml give the raw string, and None for a body
\* that is empty or all whitespace; application/octet-stream, pdf and zip
\* give the raw bytes; every other type, text/csv among them, gives None.
C26_ResponseMapping ==
    resp_data.kind \notin {"-", "raised"} =>
      LET t == <<MainType, SubType>>
          solid == \E i \in 1..Len(resp_body) : resp_body[i] \notin Whitespace
      IN  IF t = <<"application", "json">> THEN resp_data.kind = "parsed"
          ELSE IF t \in {<<"text", "plain">>, <<"text", "html">>,
                         <<"application", "xml">>, <<"text", "xml">>}
          THEN resp_data = IF solid THEN [kind |-> "text", value |-> resp_body]
                           ELSE None
          ELSE IF t \in {<<"application", "octet-stream">>,
                         <<"application", "pdf">>, <<"application", "zip">>}
          THEN resp_data = [kind |-> "bytes", value |-> resp_body]
          ELSE resp_data = None

\* a text/csv response with a body came out as None
C26_Witness ==
    /\ MainType = "text"
    /\ SubType = "csv"
    /\ resp_body = <<"x">>
    /\ resp_data = None

(***************************************************************************)
(* C27: a line without a tax code stops every payload builder              *)
(***************************************************************************)
\* the last hook got as far as building its payload
BuilderReached ==
    hook.stage \in {"tax_code", "rejected", "response", "marked"}

\* C27: a document with a line item that lacks a remote tax-type code ends
\* its builder with a configuration error and is not sent, whichever of the
\* builders it is (sales invoice, credit note, purchase invoice, stock
\* adjustment).
C27_MissingTaxCodeStopsEveryBuilder ==
    (hook.missing_tax_code /\ BuilderReached)
        => hook.stage = "tax_code" /\ ~hook.sent

(***************************************************************************)
(* C28: building a payload touches nothing but the tax fields of the lines *)
(***************************************************************************)
C28_Build ==
    /\ tax_runs' = tax_runs + 1
    /\ tax_run'.function \in {"build_invoice_payload",
                               "build_creditnote_payload"}

TaxFieldsCleared(item) ==
    [item EXCEPT !.custom_tax_amount = FloatZero,
                 !.custom_tax_rate = FloatZero,
                 !.taxation_type_code = ""]

\* C28: a run of build_invoice_payload or build_creditnote_payload, the
\* calculate_tax pass included, sends no remote request, enqueues no
\* background job and changes nothing but the tax fields of the document's
\* lines.
C28_Step ==
    C28_Build =>
      /\ UNCHANGED <<sent, wire, etims_sent, other_sent>>
      /\ UNCHANGED <<queue, retry_jobs, item_registrations,
                     customer_registrations>>
      /\ tax_doc'.taxes = tax_doc.taxes
      /\ DOMAIN tax_doc'.items = DOMAIN tax_doc.items
      /\ \A i \in DOMAIN tax_doc.items :
            TaxFieldsCleared(tax_doc'.items[i])
                = TaxFieldsCleared(tax_doc.items[i])

C28_BuildingDoesNoIO == [][C28_Step]_vars

(***************************************************************************)
(* C29: the document-level allocation adds up to the tax rows              *)
(***************************************************************************)
\* calculate_tax has run on a document with tax rows and no line template
DocumentLevel ==
    /\ tax_runs > 0
    /\ tax_doc.taxes # <<>>
    /\ \A i \in DOMAIN tax_doc.items : tax_doc.items[i].item_tax_template = ""

\* sum(item.custom_tax_amount for item in doc.items), from the left
RECURSIVE AllocatedFrom(_, _)
AllocatedFrom(i, acc) ==
    IF i > Len(tax_doc.items) THEN acc
    ELSE AllocatedFrom(i + 1, fadd(acc, tax_doc.items[i].custom_tax_amount))

Allocated == AllocatedFrom(1, FloatZero)

TaxRowsTotal == SumInts(tax_doc.taxes)

NetTotal ==
    SumInts([i \in DOMAIN tax_doc.items |-> tax_doc.items[i].base_net_amount])

Within(x, n) ==
    LET t == ShiftLeftBits(Limbs(n), x.e)
        d == IF LeqNat(t, x.m) THEN SubNat(x.m, t) ELSE SubNat(t, x.m)
    IN  LeqNat(ShiftLeftBits(d, 50), t)

C30_CodeFollowsRateThresholds ==
    (tax_runs > 0 /\ ~tax_run.raised) =>
      \A i \in DOMAIN tax_doc.items :
        LET item == tax_doc.items[i]
        IN  TemplateType(item.item_tax_template) = ""
              => item.taxation_type_code =
                   IF fge_int(item.custom_tax_rate, 16) THEN "B"
                   ELSE IF fge_int(item.custom_tax_rate, 8) THEN "E"
                   ELSE "A"


(***************************************************************************)
(* C31: when a failure body holds the 'could not decode json' message,     *)
(* make_remote_call runs reset_auth_password, and whether that reset       *)
(* succeeds or fails the Integration Request is marked Failed and the      *)
(* error notifier runs (the error callback and the 401 retry come after    *)
(* the notifier, lines 307-326); the stored password changes only if the   *)
(* remote accepted the new one.                                            *)
(***************************************************************************)
ResetRan == Len(reset_logs') = Len(reset_logs) + 1

C31_Step ==
    /\ ResetRan =>
         /\ log_status' = "Failed"
         /\ notifier_calls' = notifier_calls + 1
    /\ auth_password' # auth_password =>
         /\ ResetRan
         /\ reset_logs'[Len(reset_logs')] = "Completed"

C31_ResetIndependentOfFailureHandling == [][C31_Step]_vars


(***************************************************************************)
(* C32: when process_invoice_items runs twice for one document, in any     *)
(* interleaving, the remote makes at most one line per row: a run that     *)
(* finds a remote id on a row sends no create for it. (A create counted    *)
(* here is a POST the remote accepted; POSTs it refused are not counted.)  *)
(***************************************************************************)
C32_AtMostOneCreatePerLine == \A i \in Items : line_creates[i] <= 1


(***************************************************************************)
(* C33: for a document that is not a return, when the lines of the remote  *)
(* snapshot have the quantities and tax-inclusive unit prices of the       *)
(* saleItemList that build_invoice_payload makes for it and the remote     *)
(* total is the local total, update_invoice_info persists the remote       *)
(* identifiers and leaves revision_count as it was.                        *)
(***************************************************************************)
SameLines(lines, items) ==
    /\ Len(lines) = Len(items)
    /\ \A k \in DOMAIN lines :
         /\ lines[k].quantity = items[k].quantity
         /\ lines[k].price_inclusive_tax = items[k].unitPrice

LocalTotal(items) ==
    SumInts([k \in DOMAIN items |->
                (items[k].quantity * items[k].unitPrice) \div 100])

Agreeing(d) ==
    /\ ~is_return[d]
    /\ ~m_response.is_credit_note
    /\ SameLines(m_response.lines, saleItemList(d))
    /\ m_response.total_gross_amount = LocalTotal(saleItemList(d))

C33_Step ==
    \A d \in Docs :
        (m_result = "-" /\ m_result' # "-" /\ Agreeing(d)) =>
            /\ scu_set'[d]
            /\ custom_slade_id'[d] = RemoteInvoiceId(d)
            /\ revision_count' = revision_count

C33_AgreeingSnapshotIsPersisted == [][C33_Step]_vars


(***************************************************************************)
(* C34: for every max_allowed_revisions, 0 (unset) included, the credit    *)
(* notes update_invoice_info issues for one document stay within a bound   *)
(* that does not grow with the number of mismatching reconciliations: at   *)
(* most max_allowed_revisions of them, however many mismatches follow.     *)
(***************************************************************************)
C34_CreditNotesBounded ==
    \A d \in Docs : credit_notes[d] <= max_allowed_revisions

\* two mismatches of a document were handled with no ceiling set
C34_Witness ==
    \E d \in Docs :
        /\ max_allowed_revisions = 0
        /\ mismatches[d] >= 2
        /\ ~is_return[d]
        /\ status[d] # "Credit Note Issued"
        /\ cpc = "done"


(***************************************************************************)
(* C35: the Integration Request of a finished call is Completed only if    *)
(* the answer was 200/201 and the success handler returned without         *)
(* raising; a call that ended in the except clause (it returned None)      *)
(* does not leave the request Completed.                                   *)
(***************************************************************************)
C35_CompletedOnlyAfterHandlerReturned ==
    (cpc = "done" /\ log_status = "Completed") =>
        /\ IsSuccessStatus(status_code)
        /\ result # "None"


(***************************************************************************)
(* C36: when the first leg of make_remote_call is answered 401 and the     *)
(* retried leg is answered 200/201, the caller is not handed the body of   *)
(* the first leg (it gets that of the retried one) and the Integration     *)
(* Request ends Completed.                                                 *)
(***************************************************************************)
C36_RetriedBodyIsReturned ==
    (cpc = "done" /\ first_401 /\ retrying /\ IsSuccessStatus(status_code)) =>
        /\ result # "first_body"
        /\ log_status = "Completed"


(***************************************************************************)
(* C37: the compensating retry of a document ends: every retry job comes   *)
(* from one run of sales_information_submission_on_error, a retry job      *)
(* starts none, and at most one retry job of a document is waiting at any  *)
(* time.                                                                   *)
(***************************************************************************)
PendingRetries(d) == retry_jobs[d] - retry_runs[d]

C38_SubmittedInvoiceIsEventuallyFetched ==
    \A d \in Docs :
        (custom_successfully_submitted[d] = 1 /\ ~scu_set[d])
            ~> (sweep_resumed[d] = "fetch")


(***************************************************************************)
(* C39: for every kind of document submitted by a before_submit hook, a    *)
(* submission that the service answers with 'already exists' (it holds the *)
(* document from an earlier submission whose answer was lost) ends with    *)
(* the document marked as submitted, so the document is never blocked.     *)
(***************************************************************************)
MarkedSubmitted(h) ==
    IF h.doctype = "Sales Invoice"
    THEN custom_successfully_submitted'[h.doc] = 1
    ELSE other_submitted'[h.doc] = 1

C39_Step ==
    (hooks_run' = hooks_run + 1 /\ hook'.sent /\ hook'.answer = "exists") =>
        /\ hook'.stage = "marked"
        /\ MarkedSubmitted(hook')

C39_AlreadyExistsCountsAsSubmitted == [][C39_Step]_vars

====
